---- MODULE Spec2Model ----
(***************************************************************************)
(* HonkBot's chaos decision loop (src/chaos/decision_loop.py) with the     *)
(* collaborators it drives: the state store (src/state/memory.py), the     *)
(* safety controls (src/safety/controls.py), the chaos executors           *)
(* (src/chaos/random_events.py, src/locks/honkify.py) and the voice        *)
(* executor (src/voice/behavior.py).                                       *)
(*                                                                         *)
(* Everything runs on one asyncio event loop.  A coroutine runs without    *)
(* interruption from one await that suspends to the next, so the variable  *)
(* `running` names the loop task that is inside such a synchronous         *)
(* section (0: the event loop is free).  Every other activity (start(),    *)
(* stop(), admin commands, the clock, another task) waits for running = 0. *)
(*                                                                         *)
(* Time is in whole seconds.  `mono` is time.monotonic(); time.time() is   *)
(* mono + wallOffset (Wall), the offset being fixed by the host.           *)
(*                                                                         *)
(* What the random draws and the outside world decide is chosen with \E:   *)
(* the activity snapshot, the roll against the action chance, the action   *)
(* category, the sleep duration, the outcome of a send, the members of a   *)
(* channel, the state of the voice channels.  The mood engine only feeds   *)
(* the probabilities of these draws (the chance is at least                *)
(* BASE_ACTION_CHANCE and every category weight is positive), so the loop  *)
(* model draws them freely.                                                *)
(***************************************************************************)
EXTENDS Integers, Sequences, FiniteSets, TLC

----------------------------------------------------------------------------
(* Bounds of the model *)

\* the clock stops advancing at MaxTime
MaxTime == 40
\* seconds the clock advances in one Tick
TickSeconds == 20
\* loop tasks start() may create in one run
MaxTasks == 3
\* stop() calls that may be in progress at once
MaxStops == 1
\* lines of a burst that are modelled (a burst has Min(count, MaxBurst) lines)
MaxBurst == 1
\* admin commands in one run
MaxAdminOps == 1
\* time.time() - time.monotonic() on a host whose clocks differ
EpochOffset == 1000
\* coroutines that call one RateLimiter
MaxCallers == 2
\* the largest max_calls a RateLimiter is built with
MaxRateCalls == 2
\* the largest per_seconds a RateLimiter is built with
MaxPerSeconds == 2
\* the value at which the `waited` total of an acquire() call saturates
MaxWaited == 4

----------------------------------------------------------------------------
(* Program constants *)

MIN_CYCLE_SECONDS == 20
MAX_CYCLE_SECONDS == 45
GUILD_COOLDOWN_SECONDS == 25
DEFAULT_HONKIFY_BURST_COUNT == 3
DEFAULT_HONKIFY_COOLDOWN_SECONDS == 60
DEFAULT_TAKEOVER_BURST_LINES == 6
DEFAULT_TAKEOVER_COOLDOWN_SECONDS == 300
DEFAULT_FLOOD_COUNT == 6
DEFAULT_FLOOD_COOLDOWN_SECONDS == 90
DEFAULT_TAKEOVER_THRESHOLD == 10
VOICE_GUILD_COOLDOWN_SECONDS == 120

GUILD_COOLDOWN_KEY == "chaos_guild_cycle"
COOLDOWN_HONKIFY_BURST == "chaos_honkify_burst"
COOLDOWN_TAKEOVER == "chaos_takeover"
COOLDOWN_MESSAGE_FLOOD == "chaos_message_flood"

----------------------------------------------------------------------------
(* The world: two guilds.  Guild 1 has a text channel (11) and a voice      *)
(* channel (12); guild 2 has a voice channel (22) only, so it never has a  *)
(* hot channel.                                                            *)

\* list(bot.guilds)
BotGuilds == <<1, 2>>
Guilds == {BotGuilds[k] : k \in 1..Len(BotGuilds)}
\* the channels guild.get_channel(channel_id) finds
ChannelsOf(g) == IF g = 1 THEN {11, 12} ELSE {22}
\* isinstance(channel, discord.TextChannel)
TextChannels == {11}
\* the one human member of a text channel (honkify_burst's target)
MemberOf(c) == 100 + c
Members == {MemberOf(c) : c \in TextChannels}

\* None
NoChannel == 0
NoTask == 0
NoCooldown == -1
\* now = None, locked_at = None
NoNow == -1

\* a dict is a function on the keys it holds
EmptyDict == [k \in {} |-> 0]
\* d[k] = v
DictSet(d, k, v) == [j \in DOMAIN d \cup {k} |-> IF j = k THEN v ELSE d[j]]
\* d.pop(k, None)
DictPop(d, k) == [j \in DOMAIN d \ {k} |-> d[j]]
\* d.get(k, default)
DictGet(d, k, default) == IF k \in DOMAIN d THEN d[k] ELSE default

TaskIds == 1..MaxTasks
StopIds == 1..MaxStops

Min(a, b) == IF a < b THEN a ELSE b
Max(a, b) == IF a > b THEN a ELSE b

VARIABLES
    mono,          \* time.monotonic()
    wallOffset,    \* time.time() - time.monotonic()
    task,          \* decision_loop._task: a task id or NoTask
    tasks,         \* the loop tasks ever created: id -> frame of _loop/_run_for_guild
    cancelled,     \* id -> Task.cancel() was called on it
    stops,         \* stop() calls: id -> the task it awaits, or NoTask when not in progress
    running,       \* the loop task inside a synchronous section, or NoTask
    executors,     \* executor coroutines suspended at an await
    cooldowns,     \* memory._cooldowns: <<key, id>> -> expiry or NoCooldown
    chanHonk,      \* memory._channel_honk_activity
    userHonk,      \* memory._user_honk_counts
    globalEnabled, \* memory._global_safety_enabled
    guildEnabled,  \* memory._safety_state[g]["enabled"]
    moduleOff,     \* <<g, module>> with memory._safety_state[g]["module_toggles"][module] = False
    excluded,      \* g -> memory._safety_state[g]["channel_exclusions"]
    voiceCd,       \* g -> memory._safety_state[g]["cooldowns"]["guild:voice_action"]
    adminOps,      \* admin commands run so far
    probe,         \* the arguments of the library call under study
    ret,           \* what the last library call returned
    gooseState,    \* goose_brain._state
    apiOps,        \* library calls made so far
    takeoverThresholds, \* memory._takeover_thresholds
    honklocks,     \* memory._honklocks
    echoLocks,     \* memory._echo_locks
    ledger,        \* per key: the count at the last reset plus the amounts added since
    timestamps,    \* RateLimiter._timestamps, each entry as its age now - t
    callers,       \* the coroutines that call the RateLimiter: caller -> frame
    grants         \* the ages of the acquire() grants since the last reset()

vars == <<mono, wallOffset, task, tasks, cancelled, stops, running, executors,
          cooldowns, chanHonk, userHonk, globalEnabled, guildEnabled, moduleOff,
          excluded, voiceCd, adminOps, probe, ret, gooseState, apiOps,
          takeoverThresholds, honklocks, echoLocks, ledger, timestamps,
          callers, grants>>

safetyVars == <<globalEnabled, guildEnabled, moduleOff, excluded, adminOps>>
storeVars == <<cooldowns, chanHonk, userHonk, voiceCd, ledger>>
clockVars == <<mono, wallOffset>>
lifeVars == <<task, cancelled, stops>>
limiterVars == <<timestamps, callers, grants>>
\* what the decision loop never touches
lockVars == <<takeoverThresholds, honklocks, echoLocks, limiterVars>>
apiVars == <<probe, ret, gooseState, apiOps, lockVars>>

----------------------------------------------------------------------------
(* Clocks and the state store *)

\* time.time()
Wall == mono + wallOffset

\* timers._now()
Now == mono

\* memory.is_on_cooldown with `<` replaced by `<=`
IsOnCooldownInclusive(key, id, now) ==
    /\ cooldowns[<<key, id>>] # NoCooldown
    /\ (IF now = NoNow THEN Wall ELSE now) <= cooldowns[<<key, id>>]

\* memory.is_on_cooldown(key, target_id, now)
IsOnCooldownAt(key, id, now) ==
    LET timestamp == cooldowns[<<key, id>>]
    IN  IF timestamp = NoCooldown THEN FALSE
        ELSE (IF now = NoNow THEN Wall ELSE now) < timestamp

\* memory.is_on_cooldown(key, target_id) with now = None
IsOnCooldown(key, id) == IsOnCooldownAt(key, id, NoNow)

\* memory.set_cooldown(key, target_id, until_timestamp)
SetCooldown(cds, key, id, until) == [cds EXCEPT ![<<key, id>>] = until]

\* random_events._trigger_cooldown with the expiry taken from time.monotonic()
TriggerCooldownMono(cds, key, id, seconds) == SetCooldown(cds, key, id, Now + seconds)

\* random_events._trigger_cooldown(key, channel_id, seconds)
TriggerCooldown(cds, key, id, seconds) == SetCooldown(cds, key, id, Wall + seconds)

\* the expiry _run_for_guild stores after an action was performed
GuildCooldownExpiry == Now + GUILD_COOLDOWN_SECONDS

\* memory.get_takeover_threshold(channel_id)
TakeoverThreshold(c) ==
    DictGet(takeoverThresholds, c, DEFAULT_TAKEOVER_THRESHOLD)

\* memory.get_channel_honk_activity(channel_id)
GetChannelHonkActivity(c) == DictGet(chanHonk, c, 0)

\* memory.get_user_honk_count(user_id)
GetUserHonkCount(u) == DictGet(userHonk, u, 0)

\* an is_takeover_ready that ignores the count
IsTakeoverReadyAlways(c, count) == TRUE

\* memory.is_takeover_ready(channel_id, honk_count)
IsTakeoverReady(c, count) == count >= TakeoverThreshold(c)

CooldownKeys ==
    {<<GUILD_COOLDOWN_KEY, g>> : g \in Guilds}
    \cup {<<k, c>> : k \in {COOLDOWN_HONKIFY_BURST, COOLDOWN_TAKEOVER,
                            COOLDOWN_MESSAGE_FLOOD}, c \in TextChannels}

----------------------------------------------------------------------------
(* Safety controls *)

\* controls.is_guild_enabled(guild)
IsGuildEnabled(g) == guildEnabled[g]

\* controls.is_enabled(guild)
IsEnabled(g) == globalEnabled /\ IsGuildEnabled(g)

\* controls.is_module_enabled(guild, module), module in SYSTEM_TOGGLES
IsModuleEnabled(g, m) == <<g, m>> \notin moduleOff

\* controls.is_channel_allowed(guild, channel)
IsChannelAllowed(g, c) == c \notin excluded[g]

\* a _safety_allows that never probes the channel
SafetyAllowsWithoutChannelProbe(g, c) ==
    /\ IsEnabled(g)
    /\ IsGuildEnabled(g)
    /\ IsModuleEnabled(g, "chaos")

\* decision_loop._safety_allows(guild, channel): False as soon as one probe
\* returns False; the channel probes run only when a channel was selected
SafetyAllows(g, c) ==
    /\ IsEnabled(g)
    /\ IsGuildEnabled(g)
    /\ IsModuleEnabled(g, "chaos")
    /\ (c # NoChannel => IsChannelAllowed(g, c))

\* controls.safety_allows(guild=guild, module="voice")
VoiceSafetyAllows(g) == IsEnabled(g) /\ IsModuleEnabled(g, "voice")

\* controls.cooldown_active(guild, "voice_action")
VoiceCooldownActive(g) == voiceCd[g] # NoCooldown /\ Now < voiceCd[g]

----------------------------------------------------------------------------
(* Signals of one guild evaluation *)

\* the activity snapshots the tracker may hold for guild g: a count for any
\* subset of its channels (a text channel may be listed with no message)
Snapshots(g) ==
    UNION {{counts \in [sub -> {0, 2}] :
              \A c \in sub : c \notin TextChannels => counts[c] > 0}
           : sub \in SUBSET ChannelsOf(g)}

\* a _select_active_channel that keeps the channels with no message
SelectListedChannel(g, counts) ==
    LET weighted == {c \in DOMAIN counts : c \in TextChannels /\ counts[c] >= 0}
    IN  IF weighted = {} THEN {NoChannel} ELSE weighted

\* decision_loop._select_active_channel: the channels random.choices may
\* return (text channels with a positive count), or {NoChannel}
SelectActiveChannel(g, counts) ==
    LET weighted == {c \in DOMAIN counts : c \in TextChannels /\ counts[c] > 0}
    IN  IF weighted = {} THEN {NoChannel} ELSE weighted

\* the action categories of _weighted_action: every weight is positive
Actions == {"voice", "honkify", "takeover", "flood"}
ChannelActions == {"honkify", "takeover", "flood"}

\* lines of a burst with `count` lines, as far as they are modelled
BurstLines(count) == Min(Max(1, count), MaxBurst)

----------------------------------------------------------------------------
(* Frames *)

NoCounts == [c \in {} |-> 0]

\* a loop task that does not exist yet
NoFrame == [pc |-> "none", i |-> 0, wake |-> 0, chan |-> NoChannel,
            counts |-> NoCounts, action |-> "-", performed |-> FALSE,
            worked |-> FALSE, out |-> "-"]

\* the frame of _loop between two guild evaluations
IdleFrame(pc, i, out) == [NoFrame EXCEPT !.pc = pc, !.i = i, !.out = out]

Live(t) == tasks[t].pc \notin {"none", "done"}
Suspended(t) == tasks[t].pc \in {"created", "exec", "sleep"}
GuildOf(t) == BotGuilds[tasks[t].i]

\* no library call is under study
NoProbe == [op |-> "-"]
NoRet == [op |-> "-"]

\* goose_brain._state is None
NoGoose == [mood |-> "-", aggression |-> 0, boredom |-> 0, curiosity |-> 0,
            chaos |-> 0, last_updated |-> 0]

\* the state of the bot after the modules were imported
LoopInit ==
    /\ mono = 0
    /\ wallOffset \in {0, EpochOffset}
    /\ task = NoTask
    /\ tasks = [t \in TaskIds |-> NoFrame]
    /\ cancelled = [t \in TaskIds |-> FALSE]
    /\ stops = [s \in StopIds |-> NoTask]
    /\ running = NoTask
    /\ executors = {}
    /\ cooldowns = [k \in CooldownKeys |-> NoCooldown]
    /\ \E hot \in SUBSET TextChannels :
          chanHonk = [c \in hot |-> DEFAULT_TAKEOVER_THRESHOLD]
    /\ userHonk = EmptyDict
    /\ ledger = [user |-> [m \in Members |-> 0],
                 chan |-> [c \in TextChannels |-> GetChannelHonkActivity(c)]]
    /\ globalEnabled = TRUE
    /\ guildEnabled = [g \in Guilds |-> TRUE]
    /\ moduleOff = {}
    /\ excluded = [g \in Guilds |-> {}]
    /\ voiceCd = [g \in Guilds |-> NoCooldown]
    /\ adminOps = 0

\* the coroutines that share one RateLimiter
Callers == 1..MaxCallers

\* a caller that is not inside acquire()
IdleCaller == [pc |-> "idle", wake |-> 0, waited |-> 0]

\* the library state after the modules were imported
ApiInit ==
    /\ gooseState = NoGoose
    /\ apiOps = 0
    /\ takeoverThresholds = EmptyDict
    /\ honklocks = EmptyDict
    /\ echoLocks = EmptyDict
    /\ timestamps = << >>
    /\ callers = [c \in Callers |-> IdleCaller]
    /\ grants = << >>

Init ==
    /\ LoopInit
    /\ ApiInit
    /\ probe = NoProbe
    /\ ret = NoRet

----------------------------------------------------------------------------
(* Lifecycle: decision_loop.start / decision_loop.stop *)

\* the id asyncio.create_task gives the next loop task
NextTaskId == Cardinality({t \in TaskIds : tasks[t].pc # "none"}) + 1

\* `_task and not _task.done()`
TaskAlive == task # NoTask /\ tasks[task].pc # "done"

\* start(bot): a no-op while the tracked task is not done, else a new task
Start ==
    /\ running = NoTask
    /\ IF TaskAlive
       THEN UNCHANGED <<task, tasks>>
       ELSE /\ NextTaskId \in TaskIds
            /\ tasks' = [tasks EXCEPT ![NextTaskId] = IdleFrame("created", 0, "-")]
            /\ task' = NextTaskId
    /\ UNCHANGED <<cancelled, stops, running, executors>>
    /\ UNCHANGED <<storeVars, safetyVars, clockVars, apiVars>>

\* stop() up to `await _task`: returns at once without a task; cancels the
\* tracked task; awaiting a task that is already done does not suspend
StopBegin(s) ==
    /\ running = NoTask
    /\ stops[s] = NoTask
    /\ IF task = NoTask
       THEN UNCHANGED <<task, cancelled, stops>>
       ELSE IF tasks[task].pc = "done"
       THEN /\ task' = NoTask
            /\ UNCHANGED <<cancelled, stops>>
       ELSE /\ cancelled' = [cancelled EXCEPT ![task] = TRUE]
            /\ stops' = [stops EXCEPT ![s] = task]
            /\ UNCHANGED task
    /\ UNCHANGED <<tasks, running, executors>>
    /\ UNCHANGED <<storeVars, safetyVars, clockVars, apiVars>>

\* stop() after `await _task`: the awaited task is done; `_task = None`
StopReturn(s) ==
    /\ running = NoTask
    /\ stops[s] # NoTask
    /\ tasks[stops[s]].pc = "done"
    /\ task' = NoTask
    /\ stops' = [stops EXCEPT ![s] = NoTask]
    /\ UNCHANGED <<cancelled, tasks, running, executors>>
    /\ UNCHANGED <<storeVars, safetyVars, clockVars, apiVars>>


----------------------------------------------------------------------------
(* The loop task: decision_loop._loop and _run_for_guild *)

\* _run_for_guild returned for the guild at f.i: what it logged is f.out
RetFrame(f, out) == [IdleFrame("ret", f.i, out) EXCEPT !.chan = f.chan]

\* a _loop without the per-guild `except Exception`: the failure ends the task
UncaughtFrame(f) == IdleFrame("done", f.i, "error")

\* `except Exception` of _loop: the failure of one guild is logged and the
\* for loop goes on
CaughtFrame(f) == RetFrame(f, "error")

\* a _run_for_guild that starts the executor and does not wait for it
DetachedFrame(f) == RetFrame(f, "performed")

\* `performed = await _execute_action(...)`: the loop task is suspended
\* until the executor it dispatched returns
AwaitFrame(f) == [f EXCEPT !.pc = "exec"]

\* _execute_action returned `performed`; `worked` is what the executor
\* itself returned
PostFrame(f, performed, worked) ==
    [f EXCEPT !.pc = "post", !.performed = performed, !.worked = worked]

\* what _execute_action returns for the voice action when
\* random_voice_action returned `worked`: `await voice_action(...)` drops
\* the result and `return True` follows
ExecuteVoiceResult(worked) == TRUE

\* a _loop that runs one cycle and returns after its sleep
SingleCycleFrame(f) ==
    IF f.pc = "sleep" THEN IdleFrame("done", 0, "-") ELSE IdleFrame("eval", 1, "-")

\* `while True`: after the sleep a new cycle starts with the first guild
NewCycleFrame(f) == IdleFrame("eval", 1, "-")

\* the first step of the task: asyncio runs _loop up to its first await
TaskStart(t) ==
    /\ running = NoTask
    /\ tasks[t].pc = "created"
    /\ ~cancelled[t]
    /\ tasks' = [tasks EXCEPT ![t] = NewCycleFrame(tasks[t])]
    /\ running' = t
    /\ UNCHANGED <<lifeVars, executors>>
    /\ UNCHANGED <<storeVars, safetyVars, clockVars, apiVars>>

\* an increment that stores the amount over the count it did not re-read
IncrementCountOverwrite(d, k, amount) == DictSet(d, k, Max(0, amount))

\* an increment that stores the sum without the floor at 0
IncrementCountUnclamped(d, k, amount) == DictSet(d, k, DictGet(d, k, 0) + amount)

\* memory.increment_user_honk_count / increment_channel_honk_activity on the
\* dict d: the dict after it
IncrementCount(d, k, amount) == DictSet(d, k, Max(0, DictGet(d, k, 0) + amount))

\* memory.increment_channel_honk_activity(channel_id, amount): the dict after it
IncrementChannelHonkActivity(c, amount) ==
    IncrementCount(chanHonk, c, amount)

\* memory.increment_user_honk_count(user_id, amount): the dict after it
IncrementUserHonkCount(u, amount) ==
    IncrementCount(userHonk, u, amount)

\* the ledger after `amount` was added for user u and channel c
Ledger(u, c, amount) ==
    [ledger EXCEPT !.user[u] = @ + amount, !.chan[c] = @ + amount]

\* an _update_honk_counts that forgets the user's counter
HonkifyLineChannelOnly(c, amount) ==
    /\ chanHonk' = IncrementChannelHonkActivity(c, amount)
    /\ userHonk' = userHonk
    /\ ledger' = Ledger(MemberOf(c), c, amount)

\* honkify.honkify_message(force=True) of one burst line: both counters grow
\* by honk_delta (2 when the target's name holds "honk" and the double-honk
\* roll succeeds, else 1)
HonkifyLine(c, amount) ==
    /\ chanHonk' = IncrementChannelHonkActivity(c, amount)
    /\ userHonk' = IncrementUserHonkCount(MemberOf(c), amount)
    /\ ledger' = Ledger(MemberOf(c), c, amount)

\* a new executor coroutine of task t, suspended at its first await
Executor(t, g, kind, c, step, line, added) ==
    [task |-> t, guild |-> g, kind |-> kind, chan |-> c, step |-> step,
     line |-> line, added |-> added, sent |-> 0]

\* _execute_action(action, ...) up to the executor's first await, or to its
\* return when it returns without awaiting
Dispatch(t, g, f, action) ==
    LET c == f.chan
        fa == [f EXCEPT !.action = action]
        returns(performed, worked) ==
            /\ tasks' = [tasks EXCEPT ![t] = PostFrame(fa, performed, worked)]
            /\ UNCHANGED <<running, executors, chanHonk, userHonk, ledger>>
        suspends(e) ==
            /\ tasks' = [tasks EXCEPT ![t] = AwaitFrame(fa)]
            /\ executors' = executors \cup {e}
            /\ running' = NoTask
    IN
    \/ /\ action = "voice"
       /\ \E eligible \in BOOLEAN :
            \* random_voice_action returns False before any await: safety
            \* off, the voice cooldown active, no eligible voice channel
            IF ~VoiceSafetyAllows(g) \/ VoiceCooldownActive(g) \/ ~eligible
            THEN returns(ExecuteVoiceResult(FALSE), FALSE)
            ELSE /\ suspends(Executor(t, g, "voice", NoChannel, "connect", 0, 0))
                 /\ UNCHANGED <<chanHonk, userHonk, ledger>>
    \/ /\ action \in ChannelActions
       /\ c = NoChannel
       /\ returns(FALSE, FALSE)
    \/ /\ action = "takeover"
       /\ c # NoChannel
       /\ IF \/ IsOnCooldown(COOLDOWN_TAKEOVER, c)
             \/ ~IsTakeoverReady(c, GetChannelHonkActivity(c))
          THEN returns(FALSE, FALSE)
          ELSE /\ suspends(Executor(t, g, "takeover", c, "send", 0, 0))
               /\ UNCHANGED <<chanHonk, userHonk, ledger>>
    \/ /\ action = "honkify"
       /\ c # NoChannel
       /\ \E members \in BOOLEAN :
            \* `not members`: channel.members holds no human
            IF ~members \/ IsOnCooldown(COOLDOWN_HONKIFY_BURST, c)
            THEN returns(FALSE, FALSE)
            ELSE \E amount \in {1, 2} :
                   /\ HonkifyLine(c, amount)
                   /\ suspends(Executor(t, g, "honkify", c, "send", 1, amount))
    \/ /\ action = "flood"
       /\ c # NoChannel
       /\ IF IsOnCooldown(COOLDOWN_MESSAGE_FLOOD, c)
          THEN returns(FALSE, FALSE)
          ELSE /\ suspends(Executor(t, g, "flood", c, "send", 1, 0))
               /\ UNCHANGED <<chanHonk, userHonk, ledger>>

\* _run_for_guild(bot, guild) up to its return or to the executor's first
\* await, but for the mood state
Evaluate(t) ==
    /\ running = t
    /\ tasks[t].pc = "eval"
    /\ LET g == GuildOf(t)
           f == IdleFrame("eval", tasks[t].i, "-")
       IN
       IF IsOnCooldown(GUILD_COOLDOWN_KEY, g)
       THEN /\ tasks' = [tasks EXCEPT ![t] = RetFrame(f, "cooldown")]
            /\ UNCHANGED <<running, executors, chanHonk, userHonk, ledger>>
       ELSE \E counts \in Snapshots(g) :
            \E c \in SelectActiveChannel(g, counts) :
              LET fc == [f EXCEPT !.counts = counts, !.chan = c]
              IN
              IF ~SafetyAllows(g, c)
              THEN /\ tasks' = [tasks EXCEPT ![t] = RetFrame(fc, "blocked")]
                   /\ UNCHANGED <<running, executors, chanHonk, userHonk, ledger>>
              ELSE \/ \* random.random() > chance
                      /\ tasks' = [tasks EXCEPT ![t] = RetFrame(fc, "none")]
                      /\ UNCHANGED <<running, executors, chanHonk, userHonk, ledger>>
                   \/ \E action \in Actions : Dispatch(t, g, fc, action)
    /\ UNCHANGED <<lifeVars, cooldowns, voiceCd>>
    /\ UNCHANGED <<safetyVars, clockVars, probe, ret, apiOps, lockVars>>

\* _run_for_guild in the loop model: the mood state only feeds the chance
\* and the weights of the draws, which the loop model draws freely, so the
\* loop model leaves it aside
Eval(t) == Evaluate(t) /\ UNCHANGED gooseState

\* `if performed: memory.set_cooldown(GUILD_COOLDOWN_KEY, guild.id, ...)`
Post(t) ==
    /\ running = t
    /\ tasks[t].pc = "post"
    /\ IF tasks[t].performed
       THEN /\ cooldowns' = SetCooldown(cooldowns, GUILD_COOLDOWN_KEY, GuildOf(t),
                                        GuildCooldownExpiry)
            /\ tasks' = [tasks EXCEPT ![t] = RetFrame(tasks[t], "performed")]
       ELSE /\ tasks' = [tasks EXCEPT ![t] = RetFrame(tasks[t], "noop")]
            /\ UNCHANGED cooldowns
    /\ UNCHANGED <<lifeVars, running, executors, chanHonk, userHonk, ledger, voiceCd>>
    /\ UNCHANGED <<safetyVars, clockVars, apiVars>>

\* the for loop of _loop: the next guild, or after the last one
\* timers.randomized_delay(MIN_CYCLE_SECONDS, MAX_CYCLE_SECONDS)
Advance(t) ==
    /\ running = t
    /\ tasks[t].pc = "ret"
    /\ IF tasks[t].i < Len(BotGuilds)
       THEN /\ tasks' = [tasks EXCEPT ![t] =
                           IdleFrame("eval", tasks[t].i + 1, tasks[t].out)]
            /\ UNCHANGED running
       ELSE /\ \E d \in {MIN_CYCLE_SECONDS, MAX_CYCLE_SECONDS} :
                 tasks' = [tasks EXCEPT ![t] =
                             [IdleFrame("sleep", 0, "-") EXCEPT !.wake = Now + d]]
            /\ running' = NoTask
    /\ UNCHANGED <<lifeVars, executors>>
    /\ UNCHANGED <<storeVars, safetyVars, clockVars, apiVars>>

\* asyncio.sleep(duration) is over
Wake(t) ==
    /\ running = NoTask
    /\ tasks[t].pc = "sleep"
    /\ ~cancelled[t]
    /\ mono >= tasks[t].wake
    /\ tasks' = [tasks EXCEPT ![t] = NewCycleFrame(tasks[t])]
    /\ running' = t
    /\ UNCHANGED <<lifeVars, executors>>
    /\ UNCHANGED <<storeVars, safetyVars, clockVars, apiVars>>

\* Task.cancel() takes effect: CancelledError is thrown into the task at the
\* await it is suspended at, passes every `except Exception`, is logged by
\* _loop and ends the task
CancelDeliver(t) ==
    /\ running = NoTask
    /\ cancelled[t]
    /\ Suspended(t)
    /\ tasks' = [tasks EXCEPT ![t] = IdleFrame("done", 0, "-")]
    /\ executors' = {e \in executors : e.task # t}
    /\ UNCHANGED <<lifeVars, running>>
    /\ UNCHANGED <<storeVars, safetyVars, clockVars, apiVars>>


----------------------------------------------------------------------------
(* The executors: random_events.honkify_burst, channel_takeover,           *)
(* message_flood and voice.behavior.random_voice_action, from one await to *)
(* the next.  An executor runs inside the loop task that awaits it.        *)

\* lines the burst of executor e sends after the takeover headline
LinesOf(e) ==
    CASE e.kind = "honkify" -> BurstLines(DEFAULT_HONKIFY_BURST_COUNT)
      [] e.kind = "takeover" -> BurstLines(DEFAULT_TAKEOVER_BURST_LINES)
      [] e.kind = "flood" -> BurstLines(DEFAULT_FLOOD_COUNT)
      [] OTHER -> 0

\* the cooldown of a finished burst with message_flood triggering the
\* honkify burst's cooldown instead of its own
BurstCooldownShared(e) ==
    CASE e.kind \in {"honkify", "flood"} ->
           TriggerCooldown(cooldowns, COOLDOWN_HONKIFY_BURST, e.chan,
                           DEFAULT_HONKIFY_COOLDOWN_SECONDS)
      [] e.kind = "takeover" ->
           TriggerCooldown(cooldowns, COOLDOWN_TAKEOVER, e.chan,
                           DEFAULT_TAKEOVER_COOLDOWN_SECONDS)
      [] OTHER -> cooldowns

\* the cooldown a finished burst triggers
BurstCooldown(e) ==
    CASE e.kind = "honkify" ->
           TriggerCooldown(cooldowns, COOLDOWN_HONKIFY_BURST, e.chan,
                           DEFAULT_HONKIFY_COOLDOWN_SECONDS)
      [] e.kind = "takeover" ->
           TriggerCooldown(cooldowns, COOLDOWN_TAKEOVER, e.chan,
                           DEFAULT_TAKEOVER_COOLDOWN_SECONDS)
      [] e.kind = "flood" ->
           TriggerCooldown(cooldowns, COOLDOWN_MESSAGE_FLOOD, e.chan,
                           DEFAULT_FLOOD_COOLDOWN_SECONDS)
      [] OTHER -> cooldowns

\* `await channel.send(...)` returns, or raises (discord.HTTPException)
SendDone(t, e) ==
    /\ e.step = "send"
    /\ \/ /\ executors' = (executors \ {e})
                            \cup {[e EXCEPT !.step = "delay", !.sent = @ + 1]}
          /\ UNCHANGED <<tasks, running>>
       \/ /\ executors' = executors \ {e}
          /\ tasks' = [tasks EXCEPT ![t] = CaughtFrame(tasks[t])]
          /\ running' = t
    /\ UNCHANGED storeVars

\* `await timers.randomized_delay(...)` returns: the next line of the burst,
\* or after the last line the store update and `return True`
DelayDone(t, e) ==
    /\ e.step = "delay"
    /\ IF e.line < LinesOf(e)
       THEN /\ IF e.kind = "honkify"
               THEN \E amount \in {1, 2} :
                      /\ HonkifyLine(e.chan, amount)
                      /\ executors' = (executors \ {e})
                            \cup {[e EXCEPT !.step = "send", !.line = @ + 1,
                                            !.added = @ + amount]}
               ELSE /\ executors' = (executors \ {e})
                            \cup {[e EXCEPT !.step = "send", !.line = @ + 1]}
                    /\ UNCHANGED <<chanHonk, userHonk, ledger>>
            /\ UNCHANGED <<tasks, running, cooldowns>>
       ELSE /\ executors' = executors \ {e}
            /\ cooldowns' = BurstCooldown(e)
            \* memory.reset_channel_honk_activity(channel.id)
            /\ chanHonk' = IF e.kind = "takeover"
                           THEN DictPop(chanHonk, e.chan)
                           ELSE chanHonk
            /\ ledger' = IF e.kind = "takeover"
                         THEN [ledger EXCEPT !.chan[e.chan] = 0]
                         ELSE ledger
            /\ UNCHANGED userHonk
            /\ tasks' = [tasks EXCEPT ![t] = PostFrame(tasks[t], TRUE, TRUE)]
            /\ running' = t
    /\ UNCHANGED voiceCd

\* random_voice_action after its awaits: the connect (or the move) failed
\* and it returns False, or the goose sat in the channel, left, and the
\* voice cooldown is set
VoiceDone(t, e) ==
    /\ e.kind = "voice"
    /\ \/ /\ e.step = "connect"
          /\ \/ /\ executors' = (executors \ {e}) \cup {[e EXCEPT !.step = "linger"]}
                /\ UNCHANGED <<tasks, running>>
             \/ /\ executors' = executors \ {e}
                /\ tasks' = [tasks EXCEPT ![t] =
                               PostFrame(tasks[t], ExecuteVoiceResult(FALSE), FALSE)]
                /\ running' = t
          /\ UNCHANGED voiceCd
       \/ /\ e.step = "linger"
          /\ executors' = executors \ {e}
          /\ voiceCd' = [voiceCd EXCEPT ![e.guild] = Now + VOICE_GUILD_COOLDOWN_SECONDS]
          /\ tasks' = [tasks EXCEPT ![t] =
                         PostFrame(tasks[t], ExecuteVoiceResult(TRUE), TRUE)]
          /\ running' = t
    /\ UNCHANGED <<cooldowns, chanHonk, userHonk, ledger>>

\* the await the executor of task t is suspended at completes
ExecStep(t) ==
    /\ running = NoTask
    /\ tasks[t].pc = "exec"
    /\ ~cancelled[t]
    /\ \E e \in executors :
         /\ e.task = t
         /\ \/ /\ e.kind # "voice"
               /\ \/ SendDone(t, e)
                  \/ DelayDone(t, e)
            \/ VoiceDone(t, e)
    /\ UNCHANGED <<lifeVars, safetyVars, clockVars, apiVars>>

----------------------------------------------------------------------------
(* The outside world *)

\* time passes
Tick ==
    /\ running = NoTask
    /\ mono + TickSeconds <= MaxTime
    /\ mono' = mono + TickSeconds
    /\ UNCHANGED <<wallOffset, lifeVars, tasks, running, executors>>
    /\ UNCHANGED <<storeVars, safetyVars, apiVars>>

\* an admin command of safety/controls.py
AdminOp ==
    /\ running = NoTask
    /\ adminOps < MaxAdminOps
    /\ adminOps' = adminOps + 1
    /\ \/ \* set_global_enabled(enabled, actor_id=owner)
          /\ \E b \in BOOLEAN : globalEnabled' = b
          /\ UNCHANGED <<guildEnabled, moduleOff, excluded>>
       \/ \* set_guild_enabled(guild, enabled)
          /\ \E g \in Guilds, b \in BOOLEAN :
               guildEnabled' = [guildEnabled EXCEPT ![g] = b]
          /\ UNCHANGED <<globalEnabled, moduleOff, excluded>>
       \/ \* set_module_enabled(guild, module, enabled)
          /\ \E g \in Guilds, m \in {"chaos", "voice"}, b \in BOOLEAN :
               moduleOff' = IF b THEN moduleOff \ {<<g, m>>}
                                 ELSE moduleOff \cup {<<g, m>>}
          /\ UNCHANGED <<globalEnabled, guildEnabled, excluded>>
       \/ \* add_channel_exclusion / remove_channel_exclusion
          /\ \E g \in Guilds, b \in BOOLEAN :
            \E c \in ChannelsOf(g) \cap TextChannels :
               excluded' = [excluded EXCEPT ![g] =
                              IF b THEN @ \cup {c} ELSE @ \ {c}]
          /\ UNCHANGED <<globalEnabled, guildEnabled, moduleOff>>
    /\ UNCHANGED <<lifeVars, tasks, running, executors>>
    /\ UNCHANGED <<storeVars, clockVars, apiVars>>

----------------------------------------------------------------------------

TaskStep(t) ==
    \/ TaskStart(t)
    \/ Eval(t)
    \/ Post(t)
    \/ Advance(t)
    \/ Wake(t)
    \/ ExecStep(t)

Next ==
    \/ Start
    \/ \E s \in StopIds : StopBegin(s)
    \/ \E s \in StopIds : StopReturn(s)
    \/ \E t \in TaskIds : TaskStart(t)
    \/ \E t \in TaskIds : Eval(t)
    \/ \E t \in TaskIds : Post(t)
    \/ \E t \in TaskIds : Advance(t)
    \/ \E t \in TaskIds : Wake(t)
    \/ \E t \in TaskIds : ExecStep(t)
    \/ \E t \in TaskIds : CancelDeliver(t)
    \/ Tick
    \/ AdminOp

Spec == Init /\ [][Next]_vars

\* the bot as bot.py runs it: start() is called when no loop task was ever
\* created, stop() at any time; the clock runs and admins give commands
SchedNext ==
    \/ Start /\ NextTaskId = 1
    \/ \E s \in StopIds : StopBegin(s)
    \/ \E s \in StopIds : StopReturn(s)
    \/ \E t \in TaskIds : TaskStart(t)
    \/ \E t \in TaskIds : Eval(t)
    \/ \E t \in TaskIds : Post(t)
    \/ \E t \in TaskIds : Advance(t)
    \/ \E t \in TaskIds : Wake(t)
    \/ \E t \in TaskIds : ExecStep(t)
    \/ \E t \in TaskIds : CancelDeliver(t)
    \/ Tick
    \/ AdminOp

SchedSpec == Init /\ [][SchedNext]_vars

\* any interleaving of start() and stop() calls with the loop tasks, within
\* one instant and under the default safety settings
LifecycleNext ==
    \/ Start
    \/ \E s \in StopIds : StopBegin(s)
    \/ \E s \in StopIds : StopReturn(s)
    \/ \E t \in TaskIds : TaskStart(t)
    \/ \E t \in TaskIds : Eval(t)
    \/ \E t \in TaskIds : Post(t)
    \/ \E t \in TaskIds : Advance(t)
    \/ \E t \in TaskIds : ExecStep(t)
    \/ \E t \in TaskIds : CancelDeliver(t)

LifecycleSpec == Init /\ [][LifecycleNext]_vars


\* the bot under settings no admin changes, with the scheduling asyncio
\* gives: a task that can run is run, and time passes
FairNext ==
    \/ Start /\ NextTaskId = 1
    \/ \E s \in StopIds : StopBegin(s)
    \/ \E s \in StopIds : StopReturn(s)
    \/ \E t \in TaskIds : TaskStart(t)
    \/ \E t \in TaskIds : Eval(t)
    \/ \E t \in TaskIds : Post(t)
    \/ \E t \in TaskIds : Advance(t)
    \/ \E t \in TaskIds : Wake(t)
    \/ \E t \in TaskIds : ExecStep(t)
    \/ \E t \in TaskIds : CancelDeliver(t)
    \/ Tick

FairSpec ==
    /\ Init
    /\ [][FairNext]_vars
    /\ \A t \in TaskIds : WF_vars(TaskStep(t))
    /\ WF_vars(Tick)

----------------------------------------------------------------------------
(* Provocation tiers: retaliation/scoring.py.  Scores are whole points.    *)

\* the fields of Thresholds()
THRESHOLD_WARN == 6
THRESHOLD_RETALIATE == 12
THRESHOLD_SEVERE == 18

\* the largest score that is classified
MaxScore == 24

Scores == -1..MaxScore

\* ScoringConfig().thresholds, and configurations a caller may pass
DefaultThresholds ==
    [warn |-> THRESHOLD_WARN, retaliate |-> THRESHOLD_RETALIATE,
     severe |-> THRESHOLD_SEVERE]
ThresholdConfigs ==
    {DefaultThresholds,
     [warn |-> THRESHOLD_SEVERE, retaliate |-> THRESHOLD_RETALIATE,
      severe |-> THRESHOLD_WARN]}

\* a threshold_level whose two upper labels are exchanged
ThresholdLevelSwapped(score, thresholds) ==
    IF score >= thresholds.severe THEN "retaliate"
    ELSE IF score >= thresholds.retaliate THEN "severe"
    ELSE IF score >= thresholds.warn THEN "warn"
    ELSE "none"

\* a threshold_level that compares with > in place of >=
ThresholdLevelStrict(score, thresholds) ==
    IF score > thresholds.severe THEN "severe"
    ELSE IF score > thresholds.retaliate THEN "retaliate"
    ELSE IF score > thresholds.warn THEN "warn"
    ELSE "none"

\* scoring.threshold_level(score, config)
ThresholdLevel(score, thresholds) ==
    IF score >= thresholds.severe THEN "severe"
    ELSE IF score >= thresholds.retaliate THEN "retaliate"
    ELSE IF score >= thresholds.warn THEN "warn"
    ELSE "none"

\* scoring.meets_threshold(score, config)
MeetsThreshold(score, thresholds) == score >= thresholds.retaliate

\* 1.0 of a decayed score, in 512ths: a score stays exact through nine halvings
ScoreUnit == 512
HALF_LIFE_SECONDS == 900

\* the arguments apply_decay is called with: times are multiples of the
\* default half-life and half-lives divide it, so every exponent is whole
DecayScores == {0, ScoreUnit, THRESHOLD_WARN * ScoreUnit, THRESHOLD_SEVERE * ScoreUnit}
DecayTimes == {0, HALF_LIFE_SECONDS, 2 * HALF_LIFE_SECONDS, 3 * HALF_LIFE_SECONDS}
HalfLives == {-HALF_LIFE_SECONDS, 0, HALF_LIFE_SECONDS \div 3, HALF_LIFE_SECONDS}

\* score * 0.5 ** exponent
Halved(score, exponent) ==
    IF exponent >= 0 THEN score \div (2 ^ exponent) ELSE score * (2 ^ (-exponent))

\* an apply_decay whose exponent is one too large
ApplyScoreDecayEager(score, last_updated, now, half_life) ==
    Halved(score, 1)

\* an apply_decay without the max(0.0, ...) around the elapsed time
ApplyScoreDecaySigned(score, last_updated, now, half_life) ==
    LET at == IF now = NoNow THEN Wall ELSE now
    IN  IF half_life <= 0 THEN score
        ELSE Halved(score, (at - last_updated) \div half_life)

\* scoring.apply_decay(score, last_updated, now, config)
ApplyScoreDecay(score, last_updated, now, half_life) ==
    LET at == IF now = NoNow THEN Wall ELSE now
        elapsed == Max(0, at - last_updated)
    IN  IF half_life <= 0 THEN score
        ELSE Halved(score, elapsed \div half_life)

\* the weights of ScoringConfig(), in tenths
BASE_INSULT == 20
PROFANITY == 12
THREAT == 25
ALL_CAPS_MULTIPLIER == 14
EXCLAMATION_MULTIPLIER == 11
REPETITION == 10

\* keyword hits of one kind in a text, at most
MaxHits == 1
\* "!" characters in a text, at most
MaxBangs == 2

\* a text, by what _score_content reads of it: the keywords of each set it
\* contains, the case of its cased letters ("none": it has none), whether it
\* has letters without case (isalpha() and never isupper()), and its "!"s
Texts ==
    {x \in [insult : 0..MaxHits, profanity : 0..MaxHits, threat : 0..MaxHits,
            cased : {"none", "lower", "upper", "mixed"}, caseless : BOOLEAN,
            bangs : 0..MaxBangs] :
       x.insult + x.profanity + x.threat > 0 => x.cased # "none"}

\* content.upper() / content.lower(): keywords are matched in content.lower(),
\* so the hits stay; letters without case stay as they are
Upper(text) == [text EXCEPT !.cased = IF @ = "none" THEN @ ELSE "upper"]
Lower(text) == [text EXCEPT !.cased = IF @ = "none" THEN @ ELSE "lower"]

\* scoring._is_all_caps(content)
IsAllCaps(text) == text.cased = "upper" /\ ~text.caseless

\* the summed keyword score, in thousandths
KeywordScore(text) ==
    (text.insult * BASE_INSULT + text.profanity * PROFANITY
       + text.threat * THREAT) * 100

\* a _score_content that multiplies once for every "!"
ScoreContentPerBang(text) ==
    LET caps == IF IsAllCaps(text) THEN ALL_CAPS_MULTIPLIER ELSE 10
    IN  (KeywordScore(text) * caps * (EXCLAMATION_MULTIPLIER ^ text.bangs))
          \div (10 * (10 ^ text.bangs))

\* scoring._score_content(content, config), in thousandths
ScoreContent(text) ==
    LET summed == KeywordScore(text)
        capped == IF IsAllCaps(text)
                  THEN (summed * ALL_CAPS_MULTIPLIER) \div 10 ELSE summed
    IN  IF text.bangs > 0 THEN (capped * EXCLAMATION_MULTIPLIER) \div 10
        ELSE capped

\* samples of a history, at most
MaxHistory == 6
\* the window _score_repetition reads
REPETITION_WINDOW == 5

\* content.strip().lower()
Normalize(content) ==
    CASE content = " SPAM " -> "spam"
      [] content = "Spam" -> "spam"
      [] OTHER -> content

\* the message that is scored, and the samples of its author's history
RepetitionMessages == [content : {"Spam"}, mentions : {{}, {"u1"}}]
HistorySamples == [content : {" SPAM ", "other"}, mentions : {{}, {"u1"}}]
Histories == UNION {[1..n -> HistorySamples] : n \in 0..MaxHistory}

\* history[:n]
Prefix(history, n) == SubSeq(history, 1, Min(n, Len(history)))

\* a _score_repetition that reads the whole history
ScoreRepetitionUnbounded(message, history) ==
    (Cardinality({k \in DOMAIN history :
                    Normalize(history[k].content) = Normalize(message.content)})
     + Cardinality({k \in DOMAIN history :
                    history[k].mentions \cap message.mentions # {}}))
    * REPETITION

\* scoring._score_repetition(message, history, config), in tenths
ScoreRepetition(message, history) ==
    IF Len(history) = 0 THEN 0
    ELSE LET window == Prefix(history, REPETITION_WINDOW)
             text == Normalize(message.content)
             repeated == Cardinality({k \in DOMAIN window :
                                        Normalize(window[k].content) = text})
             repeated_mentions ==
                 Cardinality({k \in DOMAIN window :
                                window[k].mentions \cap message.mentions # {}})
         IN  (repeated + repeated_mentions) * REPETITION

\* the call of the scoring module that is made
ScoreProbes ==
    [op : {"classify"}, s1 : Scores, s2 : Scores, thresholds : ThresholdConfigs]
    \cup [op : {"decay"}, score : DecayScores, last_updated : DecayTimes,
          now : DecayTimes \cup {NoNow}, later : DecayTimes,
          half_life : HalfLives]
    \cup [op : {"content"}, text : Texts]
    \cup [op : {"repetition"}, message : RepetitionMessages, history : Histories]

\* one call of the scoring module, with the arguments it is made with
ScoreInit ==
    /\ LoopInit
    /\ wallOffset = 0
    /\ chanHonk = EmptyDict
    /\ ApiInit
    /\ probe \in ScoreProbes
    /\ ret = NoRet

\* the scoring module keeps no state: a call only returns
ScoreCall(op, value) ==
    /\ probe.op = op
    /\ ret = NoRet
    /\ ret' = value
    /\ UNCHANGED <<probe, gooseState, apiOps, lockVars>>
    /\ UNCHANGED <<lifeVars, tasks, running, executors>>
    /\ UNCHANGED <<storeVars, safetyVars, clockVars>>

Classify ==
    ScoreCall("classify",
              [op |-> "classify",
               level1 |-> ThresholdLevel(probe.s1, probe.thresholds),
               level2 |-> ThresholdLevel(probe.s2, probe.thresholds),
               meets1 |-> MeetsThreshold(probe.s1, probe.thresholds)])

\* apply_decay at `now` and at the later of `now` and `later`
Decay ==
    ScoreCall("decay",
              [op |-> "decay",
               decayed |-> ApplyScoreDecay(probe.score, probe.last_updated,
                                           probe.now, probe.half_life),
               decayed_later |->
                   ApplyScoreDecay(probe.score, probe.last_updated,
                                   Max(probe.later,
                                       IF probe.now = NoNow THEN Wall
                                       ELSE probe.now),
                                   probe.half_life)])

\* _score_content of the text, of its lowercase form without "!" and of its
\* uppercase form with "!"
Content ==
    ScoreCall("content",
              [op |-> "content",
               own |-> ScoreContent(probe.text),
               plain |-> ScoreContent([Lower(probe.text) EXCEPT !.bangs = 0]),
               loud |-> ScoreContent([Upper(probe.text) EXCEPT
                                        !.bangs = Max(1, @)])])

\* _score_repetition with the history, with its first five samples and with
\* no history
Repetition ==
    ScoreCall("repetition",
              [op |-> "repetition",
               whole |-> ScoreRepetition(probe.message, probe.history),
               window |-> ScoreRepetition(probe.message,
                                          Prefix(probe.history, REPETITION_WINDOW)),
               empty |-> ScoreRepetition(probe.message, <<>>)])

ScoreNext ==
    \/ Classify
    \/ Decay
    \/ Content
    \/ Repetition

ScoreSpec == ScoreInit /\ [][ScoreNext]_vars

----------------------------------------------------------------------------
(* The mood engine: state/goose_brain.py.  The four fields are held in     *)
(* thousandths (Unit is 1.0).  An intensity is a Python float in tenths:   *)
(* finite, infinite or NaN, with the arithmetic IEEE 754 gives them.       *)

\* 1.0 in thousandths
Unit == 1000
\* 1.0 of an intensity, in tenths
IntensityUnit == 10

DEFAULT_DECAY_SECONDS == 300

\* calls of the mood engine in one run
MaxBrainOps == 2

\* Python floats
Fin(v) == [kind |-> "fin", v |-> v]
PosInf == [kind |-> "inf", v |-> 1]
NegInf == [kind |-> "inf", v |-> -1]
NaN == [kind |-> "nan", v |-> 0]
\* an optional argument left at None
NoArg == [kind |-> "none", v |-> 0]


\* effect * intensity, for a finite effect in thousandths
FloatMul(effect, x) ==
    CASE x.kind = "fin" -> Fin((effect * x.v) \div IntensityUnit)
      [] x.kind = "inf" -> IF effect = 0 THEN NaN
                           ELSE IF effect * x.v > 0 THEN PosInf ELSE NegInf
      [] OTHER -> NaN

\* value + delta, for a finite value
FloatAdd(value, d) == IF d.kind = "fin" THEN Fin(value + d.v) ELSE d

\* goose_brain._clamp(value) = max(0.0, min(1.0, value)): Python's min and
\* max keep their first argument unless the second compares smaller
\* (greater), so a NaN becomes 1.0
Clamp01(x) ==
    CASE x.kind = "fin" -> Max(0, Min(Unit, x.v))
      [] x.kind = "inf" -> IF x.v > 0 THEN Unit ELSE 0
      [] OTHER -> Unit

Moods == {"serene", "alert", "agitated", "ferocious", "chaotic"}
Fields == {"aggression", "boredom", "curiosity", "chaos"}

\* EVENT_EFFECTS.get(event, {}).get(field, 0.0), in thousandths
Effect(event, field) ==
    CASE event = "honked_at" ->
           (CASE field = "aggression" -> 200 [] field = "chaos" -> 100
              [] field = "boredom" -> -150 [] OTHER -> 0)
      [] event = "petted" ->
           (CASE field = "aggression" -> -200 [] field = "curiosity" -> 50
              [] field = "boredom" -> -100 [] OTHER -> 0)
      [] event = "ignored" ->
           (CASE field = "boredom" -> 200 [] field = "curiosity" -> -50
              [] OTHER -> 0)
      [] event = "food_offered" ->
           (CASE field = "curiosity" -> 250 [] field = "aggression" -> -100
              [] OTHER -> 0)
      [] event = "chased" ->
           (CASE field = "aggression" -> 350 [] field = "chaos" -> 200
              [] OTHER -> 0)
      [] event = "loud_noise" ->
           (CASE field = "aggression" -> 150 [] field = "curiosity" -> 100
              [] field = "chaos" -> 150 [] OTHER -> 0)
      [] event = "praised" ->
           (CASE field = "aggression" -> -100 [] field = "boredom" -> -50
              [] field = "curiosity" -> 100 [] OTHER -> 0)
      [] OTHER -> 0

\* list_known_events()
KnownEvents == {"honked_at", "petted", "ignored", "food_offered", "chased",
                "loud_noise", "praised"}

\* DECAY_RATES[field], in thousandths
DecayRate(field) ==
    CASE field = "aggression" -> 15
      [] field = "boredom" -> -10
      [] field = "curiosity" -> -10
      [] field = "chaos" -> 10

\* a _resolve_mood whose bands include their upper limit
ResolveMoodInclusive(aggression, chaos) ==
    LET intensity == Max(0, Min(10 * Unit, 7 * aggression + 3 * chaos))
    IN  IF intensity <= 2500 THEN "serene"
        ELSE IF intensity <= 4500 THEN "alert"
        ELSE IF intensity <= 6500 THEN "agitated"
        ELSE IF intensity <= 8500 THEN "ferocious"
        ELSE "chaotic"

\* goose_brain._resolve_mood(aggression, chaos): the band of
\* 0.7 * aggression + 0.3 * chaos, here in units of 1/10000
ResolveMood(aggression, chaos) ==
    LET intensity == Max(0, Min(10 * Unit, 7 * aggression + 3 * chaos))
    IN  IF intensity < 2500 THEN "serene"
        ELSE IF intensity < 4500 THEN "alert"
        ELSE IF intensity < 6500 THEN "agitated"
        ELSE IF intensity < 8500 THEN "ferocious"
        ELSE "chaotic"


\* `now or time.time()`: None and 0 are both falsy
Timestamp(now) == IF now = NoNow \/ now = 0 THEN Wall ELSE now

\* the state _ensure_state creates on first use
DefaultGoose(now) ==
    [mood |-> "serene", aggression |-> 200, boredom |-> 200, curiosity |-> 300,
     chaos |-> 100, last_updated |-> now]

\* an _ensure_state that forgets the stored state
EnsureFreshState(st, now) == DefaultGoose(now)

\* goose_brain._ensure_state(now), for a resolved timestamp
EnsureState(st, now) == IF st.mood = "-" THEN DefaultGoose(now) ELSE st

\* rate * min(1.0, elapsed / decay_seconds)
DecayPart(rate, elapsed, decay) == (rate * Min(decay, elapsed)) \div decay

\* goose_brain._apply_decay(state, now, decay_seconds)
ApplyDecay(st, now, decay) ==
    LET elapsed == Max(0, now - st.last_updated)
        aggression ==
            Clamp01(Fin(st.aggression - DecayPart(DecayRate("aggression"), elapsed, decay)))
        boredom ==
            Clamp01(Fin(st.boredom + DecayPart(DecayRate("boredom"), elapsed, decay)))
        curiosity ==
            Clamp01(Fin(st.curiosity + DecayPart(DecayRate("curiosity"), elapsed, decay)))
        chaos ==
            Clamp01(Fin(st.chaos + DecayPart(DecayRate("chaos"), elapsed, decay)))
    IN  IF decay <= 0 THEN st
        ELSE [mood |-> ResolveMood(aggression, chaos), aggression |-> aggression,
              boredom |-> boredom, curiosity |-> curiosity, chaos |-> chaos,
              last_updated |-> now]

\* an update_state that stores the fields unclamped
UpdateStateUnclamped(st, event, intensity, now, decay) ==
    LET timestamp == Timestamp(now)
        state == ApplyDecay(EnsureState(st, timestamp), timestamp, decay)
        raw(field) == FloatAdd(state[field], FloatMul(Effect(event, field), intensity))
        adjusted(field) == IF raw(field).kind = "fin" THEN raw(field).v ELSE Unit
    IN  [mood |-> ResolveMood(adjusted("aggression"), adjusted("chaos")),
         aggression |-> adjusted("aggression"), boredom |-> adjusted("boredom"),
         curiosity |-> adjusted("curiosity"), chaos |-> adjusted("chaos"),
         last_updated |-> timestamp]

\* an update_state that keeps the mood of the decayed state
UpdateStateStaleMood(st, event, intensity, now, decay) ==
    LET timestamp == Timestamp(now)
        state == ApplyDecay(EnsureState(st, timestamp), timestamp, decay)
        adjusted(field) ==
            Clamp01(FloatAdd(state[field], FloatMul(Effect(event, field), intensity)))
    IN  [mood |-> state.mood,
         aggression |-> adjusted("aggression"), boredom |-> adjusted("boredom"),
         curiosity |-> adjusted("curiosity"), chaos |-> adjusted("chaos"),
         last_updated |-> timestamp]

\* goose_brain.update_state(event, intensity, now, decay_seconds): the state
\* it stores and returns
UpdateState(st, event, intensity, now, decay) ==
    LET timestamp == Timestamp(now)
        state == ApplyDecay(EnsureState(st, timestamp), timestamp, decay)
        adjusted(field) ==
            Clamp01(FloatAdd(state[field], FloatMul(Effect(event, field), intensity)))
    IN  [mood |-> ResolveMood(adjusted("aggression"), adjusted("chaos")),
         aggression |-> adjusted("aggression"), boredom |-> adjusted("boredom"),
         curiosity |-> adjusted("curiosity"), chaos |-> adjusted("chaos"),
         last_updated |-> timestamp]

\* goose_brain.tick(now, decay_seconds): the state it stores and returns
TickState(st, now, decay) ==
    ApplyDecay(EnsureState(st, Timestamp(now)), Timestamp(now), decay)

\* goose_brain.set_state(mood, aggression, boredom, curiosity, chaos, now):
\* a field or a mood left at None keeps (derives) its value
SetState(st, mood, args, now) ==
    LET state == EnsureState(st, Timestamp(now))
        given(field) == IF args[field].kind = "none" THEN Fin(state[field])
                        ELSE args[field]
        aggression == Clamp01(given("aggression"))
        chaos == Clamp01(given("chaos"))
    IN  [mood |-> IF mood = "-" THEN ResolveMood(aggression, chaos) ELSE mood,
         aggression |-> aggression, boredom |-> Clamp01(given("boredom")),
         curiosity |-> Clamp01(given("curiosity")), chaos |-> chaos,
         last_updated |-> Timestamp(now)]


\* the arguments the callers of the mood engine pass
BrainEvents == KnownEvents \cup {"unknown_event"}
Intensities == {Fin(-100 * IntensityUnit), Fin(IntensityUnit \div 2),
                Fin(IntensityUnit), PosInf, NaN}
NowArgs == {NoNow, Wall - 60, Wall + 300}
EventNowArgs == {NoNow, Wall + 300}
DecayArgs == {0, DEFAULT_DECAY_SECONDS}
FieldArgs == {NoArg, Fin(-Unit \div 2), Fin(Unit - 100), NaN}
NoFieldArgs == [field \in Fields |-> NoArg]

\* the mood engine is called on a host whose clock reads EpochOffset
BrainInit ==
    /\ LoopInit
    /\ wallOffset = EpochOffset
    /\ chanHonk = EmptyDict
    /\ ApiInit
    /\ probe = [op |-> "-", event |-> "-", intensity |-> NoArg, now |-> NoNow,
                decay |-> 0, mood |-> "-", args |-> NoFieldArgs,
                override |-> FALSE]
    /\ ret = NoGoose

\* a call of the mood engine stores and returns `st`; no call awaits, so
\* each runs from its read of _state to its write without interruption.
\* probe.override remembers that a set_state call gave a mood
BrainCall(call, st) ==
    /\ apiOps < MaxBrainOps
    /\ apiOps' = apiOps + 1
    /\ probe' = call
    /\ gooseState' = st
    /\ ret' = st
    /\ UNCHANGED <<lockVars, lifeVars, tasks, running, executors>>
    /\ UNCHANGED <<storeVars, safetyVars, clockVars>>

\* goose_brain.tick(now, decay_seconds); decision_loop._run_for_guild calls
\* tick() with both left at their defaults
BrainTick ==
    \E now \in NowArgs, decay \in DecayArgs :
      BrainCall([probe EXCEPT !.op = "tick", !.now = now, !.decay = decay],
                TickState(gooseState, now, decay))

\* goose_brain.update_state(event, intensity, now, decay_seconds), called by
\* an event handler
BrainUpdate ==
    \E event \in BrainEvents, intensity \in Intensities, now \in EventNowArgs,
       decay \in DecayArgs :
      BrainCall([probe EXCEPT !.op = "update", !.event = event,
                              !.intensity = intensity, !.now = now,
                              !.decay = decay],
                UpdateState(gooseState, event, intensity, now, decay))

\* goose_brain.set_state(mood=..., aggression=...)
BrainSet ==
    \E mood \in {"-", "chaotic"}, aggression \in FieldArgs :
      LET args == [NoFieldArgs EXCEPT !["aggression"] = aggression]
      IN  BrainCall([probe EXCEPT !.op = "set", !.mood = mood, !.args = args,
                                  !.now = NoNow,
                                  !.override = @ \/ mood # "-"],
                    SetState(gooseState, mood, args, NoNow))

BrainNext ==
    \/ BrainTick
    \/ BrainUpdate
    \/ BrainSet

BrainSpec == BrainInit /\ [][BrainNext]_vars

----------------------------------------------------------------------------
(* The state store: memory.py called directly *)

\* the largest count a call may store
MaxCount == 2

\* the two counter dicts
CounterKinds == {"user", "channel"}
CounterKeys(kind) == IF kind = "user" THEN Members ELSE TextChannels
Counter(kind) == IF kind = "user" THEN userHonk ELSE chanHonk
\* the two lock dicts
LockKinds == {"honklock", "echolock"}
Locks(kind) == IF kind = "honklock" THEN honklocks ELSE echoLocks

\* the arguments the calls are made with
CountArgs == {-2, 0, MaxCount}
AmountArgs == {-5, -1, 1, 2}
DecayAmounts == {-1, 0, 1}
ThresholdArgs == {0, 4}
StoreCooldownKeys == {<<COOLDOWN_TAKEOVER, 11>>, <<GUILD_COOLDOWN_KEY, 1>>}
CooldownSeconds == 5
QueryNowArgs == {NoNow, Wall + 1, Wall + CooldownSeconds, Wall + CooldownSeconds + 1}

\* memory.set_user_honk_count / set_channel_honk_activity
SetCount(d, k, count) == DictSet(d, k, Max(0, count))

\* memory.decay_user_honk_counts / decay_channel_honk_activity
DecayCounts(d, amount) ==
    IF amount <= 0 THEN d
    ELSE [k \in DOMAIN d |-> Max(0, d[k] - amount)]

\* memory.is_echolocked reading the honklock dict
IsLockedAny(kind, u) == u \in DOMAIN honklocks

\* memory.is_honklocked / is_echolocked
IsLocked(kind, u) == u \in DOMAIN Locks(kind)

StoreInit ==
    /\ LoopInit
    /\ wallOffset = EpochOffset
    /\ chanHonk = EmptyDict
    /\ ApiInit
    /\ probe = NoProbe
    /\ ret = NoRet

\* what a call of memory.py leaves alone besides the dicts it names
StoreFrame ==
    /\ UNCHANGED <<lifeVars, tasks, running, executors, clockVars>>
    /\ UNCHANGED <<gooseState, apiOps>>

\* the call and what it returned
Returns(call, value) ==
    /\ probe' = call
    /\ ret' = [op |-> call.op, value |-> value]

\* the counter dict of `kind` becomes d
StoreCounter(kind, d) ==
    /\ \A k \in DOMAIN d : d[k] <= MaxCount
    /\ IF kind = "user"
       THEN userHonk' = d /\ UNCHANGED chanHonk
       ELSE chanHonk' = d /\ UNCHANGED userHonk
    /\ UNCHANGED <<cooldowns, voiceCd, ledger, safetyVars, lockVars>>
    /\ StoreFrame

\* the lock dict of `kind` becomes d
StoreLocks(kind, d) ==
    /\ IF kind = "honklock"
       THEN honklocks' = d /\ UNCHANGED echoLocks
       ELSE echoLocks' = d /\ UNCHANGED honklocks
    /\ UNCHANGED <<storeVars, safetyVars, takeoverThresholds, limiterVars>>
    /\ StoreFrame

\* a getter: the store is only read
StoreRead == UNCHANGED <<storeVars, safetyVars, lockVars>> /\ StoreFrame

\* set_user_honk_count(user_id, count) / set_channel_honk_activity
SetHonkCount ==
    \E kind \in CounterKinds, count \in CountArgs :
      \E k \in CounterKeys(kind) :
        /\ StoreCounter(kind, SetCount(Counter(kind), k, count))
        /\ Returns([op |-> "set_count", kind |-> kind, key |-> k,
                    amount |-> count], 0)

\* increment_user_honk_count(user_id, amount) /
\* increment_channel_honk_activity(channel_id, amount)
IncrementHonkCount ==
    \E kind \in CounterKinds, amount \in AmountArgs :
      \E k \in CounterKeys(kind) :
        LET d == IncrementCount(Counter(kind), k, amount)
        IN  /\ StoreCounter(kind, d)
            /\ Returns([op |-> "increment", kind |-> kind, key |-> k,
                        amount |-> amount], d[k])

\* decay_user_honk_counts(amount) / decay_channel_honk_activity(amount)
DecayHonkCounts ==
    \E kind \in CounterKinds, amount \in DecayAmounts :
        /\ StoreCounter(kind, DecayCounts(Counter(kind), amount))
        /\ Returns([op |-> "decay", kind |-> kind, key |-> 0,
                    amount |-> amount], 0)

\* reset_user_honk_count(user_id) / reset_channel_honk_activity(channel_id)
ResetHonkCount ==
    \E kind \in CounterKinds :
      \E k \in CounterKeys(kind) :
        /\ StoreCounter(kind, DictPop(Counter(kind), k))
        /\ Returns([op |-> "reset_count", kind |-> kind, key |-> k,
                    amount |-> 0], 0)

\* get_user_honk_count(user_id) / get_channel_honk_activity(channel_id)
GetHonkCount ==
    \E kind \in CounterKinds :
      \E k \in CounterKeys(kind) :
        /\ StoreRead
        /\ Returns([op |-> "get_count", kind |-> kind, key |-> k],
                   IF kind = "user" THEN GetUserHonkCount(k)
                   ELSE GetChannelHonkActivity(k))

\* set_cooldown(key, target_id, until_timestamp)
StoreSetCooldown ==
    \E k \in StoreCooldownKeys :
        /\ cooldowns' = SetCooldown(cooldowns, k[1], k[2], Wall + CooldownSeconds)
        /\ Returns([op |-> "set_cooldown", key |-> k], 0)
        /\ UNCHANGED <<chanHonk, userHonk, voiceCd, ledger, safetyVars, lockVars>>
        /\ StoreFrame

\* clear_cooldown(key, target_id)
ClearCooldown ==
    \E k \in StoreCooldownKeys :
        /\ cooldowns' = [cooldowns EXCEPT ![k] = NoCooldown]
        /\ Returns([op |-> "clear_cooldown", key |-> k], 0)
        /\ UNCHANGED <<chanHonk, userHonk, voiceCd, ledger, safetyVars, lockVars>>
        /\ StoreFrame

\* is_on_cooldown(key, target_id, now)
QueryCooldown ==
    \E k \in StoreCooldownKeys, now \in QueryNowArgs :
        /\ StoreRead
        /\ Returns([op |-> "is_on_cooldown", key |-> k, now |-> now],
                   IsOnCooldownAt(k[1], k[2], now))

\* set_takeover_threshold(channel_id, threshold)
SetTakeoverThreshold ==
    \E c \in TextChannels, threshold \in ThresholdArgs :
        /\ takeoverThresholds' = DictSet(takeoverThresholds, c, Max(1, threshold))
        /\ Returns([op |-> "set_threshold", key |-> c], 0)
        /\ UNCHANGED <<storeVars, safetyVars, honklocks, echoLocks, limiterVars>>
        /\ StoreFrame

\* reset_takeover_threshold(channel_id)
ResetTakeoverThreshold ==
    \E c \in TextChannels :
        /\ takeoverThresholds' = DictPop(takeoverThresholds, c)
        /\ Returns([op |-> "reset_threshold", key |-> c], 0)
        /\ UNCHANGED <<storeVars, safetyVars, honklocks, echoLocks, limiterVars>>
        /\ StoreFrame

\* get_takeover_threshold(channel_id)
GetTakeoverThreshold ==
    \E c \in TextChannels :
        /\ StoreRead
        /\ Returns([op |-> "get_threshold", key |-> c], TakeoverThreshold(c))

\* set_honklock(user_id) / set_echolock(user_id) with locked_at = None
SetLock ==
    \E kind \in LockKinds, u \in Members :
        /\ StoreLocks(kind, DictSet(Locks(kind), u, Wall))
        /\ Returns([op |-> "set_lock", kind |-> kind, key |-> u], Wall)

\* clear_honklock(user_id) / clear_echolock(user_id)
ClearLock ==
    \E kind \in LockKinds, u \in Members :
        /\ StoreLocks(kind, DictPop(Locks(kind), u))
        /\ Returns([op |-> "clear_lock", kind |-> kind, key |-> u], 0)

\* is_honklocked(user_id) / is_echolocked(user_id)
QueryLock ==
    \E kind \in LockKinds, u \in Members :
        /\ StoreRead
        /\ Returns([op |-> "is_locked", kind |-> kind, key |-> u],
                   IsLocked(kind, u))

\* reset_all_state()
ResetAllState ==
    /\ userHonk' = EmptyDict
    /\ chanHonk' = EmptyDict
    /\ cooldowns' = [k \in CooldownKeys |-> NoCooldown]
    /\ takeoverThresholds' = EmptyDict
    /\ honklocks' = EmptyDict
    /\ echoLocks' = EmptyDict
    /\ UNCHANGED limiterVars
    /\ guildEnabled' = [g \in Guilds |-> TRUE]
    /\ moduleOff' = {}
    /\ excluded' = [g \in Guilds |-> {}]
    /\ voiceCd' = [g \in Guilds |-> NoCooldown]
    /\ globalEnabled' = TRUE
    /\ UNCHANGED <<adminOps, ledger>>
    /\ Returns([op |-> "reset_all_state"], 0)
    /\ StoreFrame

StoreNext ==
    \/ SetHonkCount
    \/ IncrementHonkCount
    \/ DecayHonkCounts
    \/ ResetHonkCount
    \/ GetHonkCount
    \/ StoreSetCooldown
    \/ ClearCooldown
    \/ QueryCooldown
    \/ SetTakeoverThreshold
    \/ ResetTakeoverThreshold
    \/ GetTakeoverThreshold
    \/ SetLock
    \/ ClearLock
    \/ QueryLock
    \/ ResetAllState

StoreSpec == StoreInit /\ [][StoreNext]_vars

----------------------------------------------------------------------------
(* Message handlers beside the loop: locks/honkify.py *)

\* messages the listener honkifies in one run
MaxMessages == 5

\* honkify_listener(message) up to its `await message.reply(...)`, for a
\* message honkify_message honkifies: _update_honk_counts adds 1 (lone honk,
\* plain honkify) or 2 (double honk) to both counters and returns the counts
\* it stored.  A message honkify_message returns None for changes nothing.
HonkifyListener ==
    /\ running = NoTask
    /\ apiOps < MaxMessages
    /\ apiOps' = apiOps + 1
    /\ \E c \in TextChannels, amount \in {1, 2} :
         LET u == MemberOf(c)
             users == IncrementUserHonkCount(u, amount)
             chans == IncrementChannelHonkActivity(c, amount)
         IN  /\ userHonk' = users
             /\ chanHonk' = chans
             /\ ledger' = Ledger(u, c, amount)
             /\ probe' = [op |-> "on_message", user |-> u, chan |-> c,
                          amount |-> amount]
             /\ ret' = [op |-> "on_message", user_count |-> users[u],
                        channel_count |-> chans[c],
                        takeover_ready |-> IsTakeoverReady(c, chans[c])]
    /\ UNCHANGED <<cooldowns, voiceCd, safetyVars, clockVars>>
    /\ UNCHANGED <<lifeVars, tasks, running, executors, gooseState, lockVars>>

\* the texts honkify_message is called with: empty, the lone word "honk", a
\* sentence holding "honk", a sentence without it
HonkTexts ==
    {[empty |-> TRUE, lone |-> FALSE, honks |-> 0],
     [empty |-> FALSE, lone |-> TRUE, honks |-> 1],
     [empty |-> FALSE, lone |-> FALSE, honks |-> 2],
     [empty |-> FALSE, lone |-> FALSE, honks |-> 0]}

\* honk_delta of the outcome honkify_message returns, 0 when it returns
\* None; chaos_roll is random.random() < chaos_chance and double_roll is
\* random.random() < double_honk_chance
HonkDelta(text, force, chaos_roll, double_roll) ==
    IF text.empty THEN 0
    ELSE IF ~(force \/ chaos_roll \/ text.honks > 0) THEN 0
    ELSE IF text.lone THEN 1
    ELSE IF text.honks > 0 /\ double_roll THEN 2
    ELSE 1

\* honkify_message(text, user_id, channel_id, force), as the listener, the
\* honkify command, honklock and honkify_burst call it: no await inside
HonkifyMessage ==
    /\ running = NoTask
    /\ apiOps < MaxMessages
    /\ apiOps' = apiOps + 1
    /\ \E c \in TextChannels, text \in HonkTexts, force \in BOOLEAN,
          chaos_roll \in BOOLEAN, double_roll \in BOOLEAN :
         LET amount == HonkDelta(text, force, chaos_roll, double_roll)
         IN  /\ probe' = [op |-> "honkify_message", user |-> MemberOf(c),
                          chan |-> c, text |-> text, force |-> force]
             /\ IF amount = 0
                THEN /\ ret' = [op |-> "honkify_message", outcome |-> FALSE,
                                honk_delta |-> 0, channel_delta |-> 0,
                                takeover_ready |-> FALSE]
                     /\ UNCHANGED <<chanHonk, userHonk, ledger>>
                ELSE /\ HonkifyLine(c, amount)
                     /\ ret' = [op |-> "honkify_message", outcome |-> TRUE,
                                honk_delta |-> amount,
                                channel_delta |-> amount,
                                takeover_ready |->
                                    IsTakeoverReady(c, DictGet(chanHonk', c, 0))]
    /\ UNCHANGED <<cooldowns, voiceCd, safetyVars, clockVars>>
    /\ UNCHANGED <<lifeVars, tasks, running, executors, gooseState, lockVars>>

HonkifyNext == HonkifyMessage

HonkifySpec == Init /\ [][HonkifyNext]_vars

\* a _run_for_guild that ticks the mood state before it looks at the
\* guild cooldown
StateAfterEarlyTick(g) ==
    TickState(gooseState, NoNow, DEFAULT_DECAY_SECONDS)

\* the mood state after _run_for_guild(bot, guild): `state =
\* goose_brain.tick()` runs unless the guild cooldown returned first
StateAfterRun(g) ==
    IF IsOnCooldown(GUILD_COOLDOWN_KEY, g) THEN gooseState
    ELSE TickState(gooseState, NoNow, DEFAULT_DECAY_SECONDS)

\* _run_for_guild with the mood engine
RunForGuild(t) ==
    /\ Evaluate(t)
    /\ gooseState' = StateAfterRun(GuildOf(t))

\* the loop started once, with the mood engine
GuildNext ==
    \/ Start /\ NextTaskId = 1
    \/ \E t \in TaskIds : TaskStart(t)
    \/ \E t \in TaskIds : RunForGuild(t)
    \/ \E t \in TaskIds : Post(t)
    \/ \E t \in TaskIds : Advance(t)
    \/ \E t \in TaskIds : Wake(t)
    \/ \E t \in TaskIds : ExecStep(t)
    \/ Tick

GuildSpec == Init /\ [][GuildNext]_vars

\* the loop started once and drawing "honkify" whenever it acts, with the
\* listener answering messages
HandlerNext ==
    \/ Start /\ NextTaskId = 1
    \/ \E t \in TaskIds : TaskStart(t)
    \/ \E t \in TaskIds : Eval(t) /\ tasks'[t].action \in {"-", "honkify"}
    \/ \E t \in TaskIds : Post(t)
    \/ \E t \in TaskIds : Advance(t)
    \/ \E t \in TaskIds : Wake(t)
    \/ \E t \in TaskIds : ExecStep(t)
    \/ Tick
    \/ HonkifyListener

HandlerSpec == Init /\ [][HandlerNext]_vars

\* the same with the loop drawing "takeover" whenever it acts
TakeoverNext ==
    \/ Start /\ NextTaskId = 1
    \/ \E t \in TaskIds : TaskStart(t)
    \/ \E t \in TaskIds : Eval(t) /\ tasks'[t].action \in {"-", "takeover"}
    \/ \E t \in TaskIds : Post(t)
    \/ \E t \in TaskIds : Advance(t)
    \/ \E t \in TaskIds : Wake(t)
    \/ \E t \in TaskIds : ExecStep(t)
    \/ Tick
    \/ HonkifyListener

TakeoverSpec == Init /\ [][TakeoverNext]_vars

----------------------------------------------------------------------------
(* One guild evaluation as a function of what its collaborators answer:    *)
(* decision_loop._run_for_guild from the activity snapshot to the roll.    *)
(* Signals are in thousandths (Unit is 1.0), weights in hundredths, so a   *)
(* chance and a roll are in hundred-thousandths.                           *)

BASE_ACTION_CHANCE == 8
CHAOS_WEIGHT == 45
ACTIVITY_WEIGHT == 35
HONK_WEIGHT == 50
PROVOCATION_WEIGHT == 40
ACTIVITY_MESSAGE_TARGET == 25
MIN_ACTIVITY_SCORE == 50

\* 1.0 as a chance
ChanceUnit == 100 * Unit

\* decision_loop._clamp(value, minimum, maximum)
Clamp(value, minimum, maximum) == Max(minimum, Min(maximum, value))

\* sum(d.values())
RECURSIVE SumValues(_)
SumValues(d) ==
    IF DOMAIN d = {} THEN 0
    ELSE LET k == CHOOSE k \in DOMAIN d : TRUE
         IN  d[k] + SumValues([j \in DOMAIN d \ {k} |-> d[j]])

\* an _activity_score without the floor
ActivityScoreUnfloored(counts) ==
    IF DOMAIN counts = {} THEN 0
    ELSE Clamp((SumValues([c \in DOMAIN counts |-> Max(0, counts[c])]) * Unit)
                   \div Max(1, ACTIVITY_MESSAGE_TARGET),
               0, Unit)

\* decision_loop._activity_score(counts)
ActivityScore(counts) ==
    IF DOMAIN counts = {} THEN MIN_ACTIVITY_SCORE
    ELSE Clamp((SumValues([c \in DOMAIN counts |-> Max(0, counts[c])]) * Unit)
                   \div Max(1, ACTIVITY_MESSAGE_TARGET),
               MIN_ACTIVITY_SCORE, Unit)

\* _select_active_channel(guild, counts) is not None: some listed channel
\* has a message
ChannelSelected(counts) == \E c \in DOMAIN counts : counts[c] > 0

\* decision_loop._honk_density(channel), the channel holding honk_count
\* honks under the takeover threshold `threshold`
HonkDensityUnder(selected, honk_count, threshold) ==
    IF ~selected THEN 0
    ELSE Clamp((honk_count * Unit) \div Max(1, threshold), 0, Unit)

\* _honk_density under the default takeover threshold
HonkDensity(selected, honk_count) ==
    HonkDensityUnder(selected, honk_count, DEFAULT_TAKEOVER_THRESHOLD)

\* decision_loop._overall_action_chance(state, activity_score, honk_density,
\* provocation)
OverallActionChance(chaos, activity_score, honk_density, provocation) ==
    Clamp(BASE_ACTION_CHANCE * Unit
              + chaos * CHAOS_WEIGHT
              + activity_score * ACTIVITY_WEIGHT
              + honk_density * HONK_WEIGHT
              + provocation * PROVOCATION_WEIGHT,
          0, ChanceUnit)

\* how _run_for_guild leaves the evaluation: "blocked" by safety, "none"
\* when random.random() > chance, "act" when it goes on to _weighted_action
\* and _execute_action
Outcome(allowed, chance, roll) ==
    IF ~allowed THEN "blocked"
    ELSE IF roll > chance THEN "none"
    ELSE "act"

\* what one call of a collaborator does: it raises, or returns a float
Raises == [kind |-> "raise", v |-> 0]
TypeErrors == [kind |-> "type_error", v |-> 0]
Returns01(b) == [kind |-> "bool", v |-> IF b THEN 1 ELSE 0]

\* a function of retaliation.engine: absent, or what it does when called
\* with the guild and then with the guild id
EngineAnswers == {Raises, Fin(-500), Fin(0), Fin(500), Fin(7000), PosInf, NaN}
EngineFunctions ==
    {[defined |-> FALSE, first |-> Raises, second |-> Raises]}
      \cup [defined : {TRUE}, first : EngineAnswers,
            second : {Raises, Fin(500)}]

\* get_guild_provocation, get_provocation_level, get_provocation_score
ProvocationProbes == 1 .. 3

\* the retaliation engine: the import fails, or a module with some of the
\* probed functions
Engines ==
    {[importable |-> FALSE,
      funcs |-> [i \in ProvocationProbes |->
                   [defined |-> FALSE, first |-> Raises, second |-> Raises]]]}
      \cup [importable : {TRUE}, funcs : [ProvocationProbes -> EngineFunctions]]

\* a _provocation_level that lets the answer through unclamped
ProvocationLevelUnclamped(engine) ==
    LET present == {i \in ProvocationProbes : engine.funcs[i].defined}
    IN  IF ~engine.importable \/ present = {} THEN 0
        ELSE LET func == engine.funcs[CHOOSE i \in present :
                                        \A j \in present : i <= j]
                 answer == IF func.first # Raises THEN func.first
                           ELSE func.second
             IN  IF answer = Raises THEN 0
                 ELSE IF answer.kind = "fin" THEN answer.v
                 ELSE Clamp01(answer)

\* decision_loop._provocation_level(guild): the first probed function that
\* is callable decides
ProvocationLevel(engine) ==
    LET present == {i \in ProvocationProbes : engine.funcs[i].defined}
    IN  IF ~engine.importable \/ present = {} THEN 0
        ELSE LET func == engine.funcs[CHOOSE i \in present :
                                        \A j \in present : i <= j]
             IN  IF func.first # Raises THEN Clamp01(func.first)
                 ELSE IF func.second # Raises THEN Clamp01(func.second)
                 ELSE 0

\* decision_loop._safe_call(func, *args) for a call that does `answer`:
\* `called` and the result (True, False or None)
SafeCall(answer) ==
    CASE answer = TypeErrors -> [called |-> FALSE, result |-> "None"]
      [] answer = Raises -> [called |-> TRUE, result |-> "None"]
      [] answer = Returns01(TRUE) -> [called |-> TRUE, result |-> "True"]
      [] OTHER -> [called |-> TRUE, result |-> "False"]

\* the controls of safety/controls.py that _safety_allows probes: on the
\* guild (is_enabled, is_guild_enabled), on the module (is_system_enabled
\* and is_module_enabled are one function) and on the channel
\* (is_channel_allowed, is_channel_enabled and channel_allowed are one
\* function)
SafetyProbes == <<"is_enabled", "is_guild_enabled", "is_module_enabled",
                  "is_channel_allowed">>

\* what a control does when called with the guild and, after a TypeError,
\* with the guild id
ControlAnswers ==
    {<<Returns01(TRUE), Raises>>, <<Returns01(FALSE), Raises>>,
     <<Raises, Raises>>, <<TypeErrors, Returns01(TRUE)>>,
     <<TypeErrors, Returns01(FALSE)>>, <<TypeErrors, TypeErrors>>,
     <<TypeErrors, Raises>>}

\* the calls a probe makes: the second only when the first was not `called`
CallsMade(answers) ==
    IF SafeCall(answers[1]).called THEN {answers[1]}
    ELSE {answers[1], answers[2]}

\* the result _safety_allows tests after probing a control
ProbeResult(answers) ==
    IF SafeCall(answers[1]).called THEN SafeCall(answers[1]).result
    ELSE SafeCall(answers[2]).result

\* the probes _safety_allows makes: the channel probes only with a channel
ProbesMade(selected) ==
    {i \in DOMAIN SafetyProbes :
        SafetyProbes[i] = "is_channel_allowed" => selected}

\* decision_loop._safety_allows(guild, channel) over controls that answer
\* `controls`: False as soon as a probe's result is False
SafetyAllowsOver(controls, selected) ==
    \A i \in ProbesMade(selected) : ProbeResult(controls[i]) # "False"

\* the chaos of the state goose_brain.tick() returns
ChaosArgs == {0, 100, Unit}
\* the recent_message_counts of a guild with up to two channels
CountsArgs ==
    UNION {[sub -> {0, 5, 25}] : sub \in SUBSET (1 .. 2)}
HonkCountArgs == {0, 5, 20}
\* random.random() is in [0.0, 1.0)
Rolls == {0, BASE_ACTION_CHANCE * Unit, BASE_ACTION_CHANCE * Unit + 1,
          ChanceUnit - 1}

VOICE_ACTION_WEIGHT == 18
HONKIFY_ACTION_WEIGHT == 36
TAKEOVER_ACTION_WEIGHT == 28
FLOOD_ACTION_WEIGHT == 18

\* a multiplier of 1.0, in hundredths
WeightUnit == 100

\* mood multipliers that silence the flood of a serene goose
MoodMultiplierSilencing(mood, action) ==
    CASE mood = "chaotic" /\ action = "takeover" -> 125
      [] mood = "chaotic" /\ action = "honkify" -> 110
      [] mood = "serene" /\ action = "voice" -> 110
      [] mood = "serene" /\ action = "flood" -> 0
      [] OTHER -> WeightUnit

\* the mood-conditional multipliers of _weighted_action, in hundredths
MoodMultiplier(mood, action) ==
    CASE mood = "chaotic" /\ action = "takeover" -> 125
      [] mood = "chaotic" /\ action = "honkify" -> 110
      [] mood = "serene" /\ action = "voice" -> 110
      [] mood = "serene" /\ action = "flood" -> 85
      [] OTHER -> WeightUnit

\* the density-conditional multiplier of _weighted_action, in hundredths
DensityMultiplier(honk_density, action) ==
    IF honk_density >= Unit /\ action = "takeover" THEN 140 ELSE WeightUnit

\* the weights _weighted_action hands to random.choices, in millionths
ActionWeights(mood, honk_density) ==
    [action \in Actions |->
       (CASE action = "voice" -> VOICE_ACTION_WEIGHT
          [] action = "honkify" -> HONKIFY_ACTION_WEIGHT
          [] action = "takeover" -> TAKEOVER_ACTION_WEIGHT
          [] action = "flood" -> FLOOD_ACTION_WEIGHT)
         * MoodMultiplier(mood, action)
         * DensityMultiplier(honk_density, action)]

\* random.choices(actions, weights): an action of positive weight
Choices(weights) == {action \in DOMAIN weights : weights[action] > 0}

\* the snapshots of guild 1, negative counts included
SignalCounts ==
    UNION {[sub -> {-3, 0, 5, 30}] : sub \in SUBSET ChannelsOf(1)}
\* the last set_takeover_threshold(channel, arg) since the last reset, if any
ThresholdCalls ==
    {[made |-> FALSE, arg |-> 0]} \cup [made : {TRUE}, arg : {-1, 0, 1, 4}]

\* memory.get_takeover_threshold after that call: set_takeover_threshold
\* stores max(1, threshold)
StoredThreshold(call) ==
    IF call.made THEN Max(1, call.arg) ELSE DEFAULT_TAKEOVER_THRESHOLD

CycleProbes ==
    [op : {"chance"}, chaos : ChaosArgs, counts : CountsArgs,
     honk_count : HonkCountArgs, provocation : {0, 500, Unit}, roll : Rolls]
      \cup [op : {"weighted_action"}, mood : Moods,
            honk_density : {0, Unit \div 2, Unit}]
      \cup [op : {"signals"}, counts : SignalCounts,
            honk_count : HonkCountArgs, threshold : ThresholdCalls]
      \cup [op : {"provocation"}, engine : Engines,
            roll : {0, ChanceUnit - 1}]
      \cup [op : {"safety"}, controls : [DOMAIN SafetyProbes -> ControlAnswers],
            selected : BOOLEAN, roll : {0, ChanceUnit - 1}]

\* one evaluation of a guild, with what its collaborators answer
CycleInit ==
    /\ LoopInit
    /\ wallOffset = 0
    /\ chanHonk = EmptyDict
    /\ ApiInit
    /\ probe \in CycleProbes
    /\ ret = NoRet

\* the chance of the cycle and where the roll leaves it
Chance ==
    LET activity == ActivityScore(probe.counts)
        honk == HonkDensity(ChannelSelected(probe.counts), probe.honk_count)
        chance == OverallActionChance(probe.chaos, activity, honk,
                                      probe.provocation)
    IN  ScoreCall("chance",
                  [op |-> "chance", activity |-> activity, honk |-> honk,
                   chance |-> chance,
                   outcome |-> Outcome(TRUE, chance, probe.roll)])

\* the provocation of a quiet cycle and where the roll leaves it
Provocation ==
    LET level == ProvocationLevel(probe.engine)
        chance == OverallActionChance(0, ActivityScore(EmptyDict), 0, level)
    IN  ScoreCall("provocation",
                  [op |-> "provocation", level |-> level, chance |-> chance,
                   outcome |-> Outcome(TRUE, chance, probe.roll)])

\* the safety gate of a quiet cycle and where the roll leaves it
Safety ==
    LET allowed == SafetyAllowsOver(probe.controls, probe.selected)
        chance == OverallActionChance(0, ActivityScore(EmptyDict), 0, 0)
    IN  ScoreCall("safety",
                  [op |-> "safety", allowed |-> allowed,
                   outcome |-> Outcome(allowed, chance, probe.roll)])

\* the signals of a cycle: the activity score, the channel random.choices
\* picks and the honk density of that channel
Signals ==
    /\ probe.op = "signals"
    /\ \E channel \in SelectActiveChannel(1, probe.counts) :
         LET threshold == StoredThreshold(probe.threshold)
         IN  ScoreCall("signals",
                       [op |-> "signals",
                        activity |-> ActivityScore(probe.counts),
                        channel |-> channel,
                        threshold |-> threshold,
                        density |-> HonkDensityUnder(channel # NoChannel,
                                                     probe.honk_count,
                                                     threshold)])

\* _weighted_action(state, honk_density): the weights and the draw
WeightedAction ==
    /\ probe.op = "weighted_action"
    /\ LET weights == ActionWeights(probe.mood, probe.honk_density)
       IN  \E action \in Choices(weights) :
             ScoreCall("weighted_action",
                       [op |-> "weighted_action", weights |-> weights,
                        action |-> action])

CycleNext ==
    \/ Signals
    \/ WeightedAction
    \/ Chance
    \/ Provocation
    \/ Safety

CycleSpec == CycleInit /\ [][CycleNext]_vars

----------------------------------------------------------------------------
(* Decision weights: goose_brain.DecisionWeights.  A weight is in          *)
(* thousandths; a normalized weight is the fraction num / den.             *)

Intents == {"observe", "wander", "honk", "peck", "chase", "investigate",
            "retreat"}

\* the modifiers a DecisionWeights may be built with
WeightArgs == {-200, 0, 100, 300}

\* a normalized() whose total counts the negative weights too
NormalizedSigned(modifiers) ==
    LET total == SumValues(modifiers)
    IN  IF total <= 0
        THEN [intent \in DOMAIN modifiers |-> [num |-> 0, den |-> 1]]
        ELSE [intent \in DOMAIN modifiers |->
                [num |-> Max(0, modifiers[intent]), den |-> total]]

\* DecisionWeights.normalized()
Normalized(modifiers) ==
    LET total == SumValues([intent \in DOMAIN modifiers |->
                              IF modifiers[intent] > 0 THEN modifiers[intent]
                              ELSE 0])
    IN  IF total <= 0
        THEN [intent \in DOMAIN modifiers |-> [num |-> 0, den |-> 1]]
        ELSE [intent \in DOMAIN modifiers |->
                [num |-> Max(0, modifiers[intent]), den |-> total]]

\* one DecisionWeights object
WeightsInit ==
    /\ LoopInit
    /\ wallOffset = 0
    /\ chanHonk = EmptyDict
    /\ ApiInit
    /\ probe \in [op : {"normalized"}, modifiers : [Intents -> WeightArgs]]
    /\ ret = NoRet

NormalizedCall ==
    ScoreCall("normalized",
              [op |-> "normalized", weights |-> Normalized(probe.modifiers)])

WeightsNext == NormalizedCall

WeightsSpec == WeightsInit /\ [][WeightsNext]_vars

----------------------------------------------------------------------------
(* Timing helpers: utils/timers.py, in whole seconds *)

\* the largest delay bound a caller passes
MaxDelay == 3

DelayArgs == -1 .. MaxDelay
MaxCallsArgs == {-1, 0, 1, 5}

\* a bounds check that only rejects negative bounds
DelayBoundsRejectedIfNegative(min_seconds, max_seconds) ==
    min_seconds < 0 \/ max_seconds < 0

\* randomized_delay and randomized_delay_value raise ValueError
DelayBoundsRejected(min_seconds, max_seconds) ==
    \/ min_seconds < 0 \/ max_seconds < 0
    \/ max_seconds < min_seconds

\* random.uniform(a, b) is a + (b - a) * random.random(), whatever the order
\* of a and b
Uniform(a, b) == Min(a, b) .. Max(a, b)

NoObject == [kind |-> "none"]

TimerProbes ==
    [op : {"randomized_delay", "randomized_delay_value"},
     min_seconds : DelayArgs, max_seconds : DelayArgs]
      \cup [op : {"CooldownTracker"}, cooldown_seconds : DelayArgs]
      \cup [op : {"RateLimiter"}, max_calls : MaxCallsArgs,
            per_seconds : DelayArgs]

\* one call of a timing helper, with the arguments it is made with
TimerInit ==
    /\ LoopInit
    /\ wallOffset = 0
    /\ chanHonk = EmptyDict
    /\ ApiInit
    /\ probe \in TimerProbes
    /\ ret = NoRet

\* await randomized_delay(min_seconds, max_seconds), up to its return
RandomizedDelay ==
    /\ probe.op = "randomized_delay"
    /\ IF DelayBoundsRejected(probe.min_seconds, probe.max_seconds)
       THEN ScoreCall("randomized_delay",
                      [op |-> "randomized_delay", raised |-> TRUE,
                       slept |-> FALSE, duration |-> 0])
       ELSE \E duration \in Uniform(probe.min_seconds, probe.max_seconds) :
              ScoreCall("randomized_delay",
                        [op |-> "randomized_delay", raised |-> FALSE,
                         slept |-> TRUE, duration |-> duration])

\* randomized_delay_value(min_seconds, max_seconds)
RandomizedDelayValue ==
    /\ probe.op = "randomized_delay_value"
    /\ IF DelayBoundsRejected(probe.min_seconds, probe.max_seconds)
       THEN ScoreCall("randomized_delay_value",
                      [op |-> "randomized_delay_value", raised |-> TRUE,
                       slept |-> FALSE, duration |-> 0])
       ELSE \E duration \in Uniform(probe.min_seconds, probe.max_seconds) :
              ScoreCall("randomized_delay_value",
                        [op |-> "randomized_delay_value", raised |-> FALSE,
                         slept |-> FALSE, duration |-> duration])

\* CooldownTracker(cooldown_seconds)
NewCooldownTracker ==
    /\ probe.op = "CooldownTracker"
    /\ ScoreCall("CooldownTracker",
                 IF probe.cooldown_seconds < 0
                 THEN [op |-> "CooldownTracker", raised |-> TRUE,
                       object |-> NoObject]
                 ELSE [op |-> "CooldownTracker", raised |-> FALSE,
                       object |-> [kind |-> "CooldownTracker",
                                   cooldown_seconds |->
                                       probe.cooldown_seconds]])

\* RateLimiter(max_calls, per_seconds)
NewRateLimiter ==
    /\ probe.op = "RateLimiter"
    /\ ScoreCall("RateLimiter",
                 IF probe.max_calls <= 0 \/ probe.per_seconds <= 0
                 THEN [op |-> "RateLimiter", raised |-> TRUE,
                       object |-> NoObject]
                 ELSE [op |-> "RateLimiter", raised |-> FALSE,
                       object |-> [kind |-> "RateLimiter",
                                   max_calls |-> probe.max_calls,
                                   per_seconds |-> probe.per_seconds]])

TimerNext ==
    \/ RandomizedDelay
    \/ RandomizedDelayValue
    \/ NewCooldownTracker
    \/ NewRateLimiter

TimerSpec == TimerInit /\ [][TimerNext]_vars

----------------------------------------------------------------------------
(* Mood bands: goose_brain._resolve_mood called directly.  An intensity is *)
(* in units of 1/10000.                                                    *)

\* MOOD_THRESHOLDS: (mood, low, high)
MOOD_THRESHOLDS ==
    <<[mood |-> "serene", low |-> 0, high |-> 2500],
      [mood |-> "alert", low |-> 2500, high |-> 4500],
      [mood |-> "agitated", low |-> 4500, high |-> 6500],
      [mood |-> "ferocious", low |-> 6500, high |-> 8500],
      [mood |-> "chaotic", low |-> 8500, high |-> 10100]>>

\* _clamp((aggression * 0.7) + (chaos * 0.3))
MoodIntensity(aggression, chaos) ==
    Max(0, Min(10 * Unit, 7 * aggression + 3 * chaos))

\* the fields _resolve_mood is called with
MoodArgs == {0, 249, 250, 450, 650, 850, Unit}

\* one call of _resolve_mood for each of two states
MoodInit ==
    /\ LoopInit
    /\ wallOffset = 0
    /\ chanHonk = EmptyDict
    /\ ApiInit
    /\ probe \in [op : {"resolve_mood"}, aggression : MoodArgs,
                  chaos : MoodArgs, aggression2 : MoodArgs, chaos2 : MoodArgs]
    /\ ret = NoRet

ResolveMoodCall ==
    ScoreCall("resolve_mood",
              [op |-> "resolve_mood",
               mood |-> ResolveMood(probe.aggression, probe.chaos),
               mood2 |-> ResolveMood(probe.aggression2, probe.chaos2)])

MoodNext == ResolveMoodCall

MoodSpec == MoodInit /\ [][MoodNext]_vars

----------------------------------------------------------------------------
(* utils/timers.py: one RateLimiter shared by concurrent coroutines.  The   *)
(* body of every `async with self._lock` has no await, so it runs from the  *)
(* lock's acquisition to its release without another coroutine in between.  *)
(* acquire and can_acquire read the clock only in `now - timestamp`, so the *)
(* queue is kept as ages, an age saturating at per_seconds.                 *)

\* the RateLimiter objects the constructor accepts
Limiters ==
    [op : {"limiter"}, max_calls : 1..MaxRateCalls, per_seconds : 1..MaxPerSeconds]

\* `while self._timestamps and now - self._timestamps[0] >= self._per_seconds:
\*      self._timestamps.popleft()`
RECURSIVE PurgeExpired(_, _)
PurgeExpired(q, per_seconds) ==
    IF q # << >> /\ Head(q) >= per_seconds
    THEN PurgeExpired(Tail(q), per_seconds)
    ELSE q

\* `self._per_seconds - (now - self._timestamps[0])`
NextAvailable(q, per_seconds) == per_seconds - Head(q)

\* one pass of the `while True` loop of acquire() by caller c: the slot is
\* reserved and the call returns `waited`, or the caller goes to sleep for
\* next_available seconds
AcquirePass(c) ==
    LET q == PurgeExpired(timestamps, probe.per_seconds)
        f == callers[c]
    IN  IF Len(q) < probe.max_calls
        THEN /\ timestamps' = Append(q, 0)
             /\ grants' = Append(grants, 0)
             /\ callers' = [callers EXCEPT ![c] = IdleCaller]
             /\ ret' = [op |-> "acquire", caller |-> c, value |-> f.waited]
        ELSE LET next_available == NextAvailable(q, probe.per_seconds)
             IN  /\ timestamps' = q
                 /\ callers' = [callers EXCEPT ![c] =
                      [pc |-> "sleep", wake |-> next_available,
                       waited |-> Min(f.waited + Max(0, next_available), MaxWaited)]]
                 /\ UNCHANGED <<grants, ret>>

\* what no RateLimiter call touches
LimiterFrame ==
    /\ UNCHANGED <<probe, gooseState, apiOps, takeoverThresholds, honklocks, echoLocks>>
    /\ UNCHANGED <<lifeVars, tasks, running, executors>>
    /\ UNCHANGED <<storeVars, safetyVars, clockVars>>

\* caller c calls acquire()
Acquire(c) ==
    /\ callers[c].pc = "idle"
    /\ AcquirePass(c)
    /\ LimiterFrame

\* `await asyncio.sleep(next_available)` of caller c is over: the next pass
AcquireRetry(c) ==
    /\ callers[c].pc = "sleep"
    /\ callers[c].wake = 0
    /\ AcquirePass(c)
    /\ LimiterFrame

\* caller c calls can_acquire()
CanAcquire(c) ==
    /\ callers[c].pc = "idle"
    /\ LET q == PurgeExpired(timestamps, probe.per_seconds)
       IN  /\ timestamps' = q
           /\ ret' = IF Len(q) < probe.max_calls
                     THEN [op |-> "can_acquire", caller |-> c, ok |-> TRUE,
                           value |-> 0]
                     ELSE [op |-> "can_acquire", caller |-> c, ok |-> FALSE,
                           value |-> Max(0, NextAvailable(q, probe.per_seconds))]
    /\ UNCHANGED <<callers, grants>>
    /\ LimiterFrame

\* caller c calls reset()
ResetLimiter(c) ==
    /\ callers[c].pc = "idle"
    /\ timestamps' = << >>
    /\ grants' = << >>
    /\ ret' = [op |-> "reset", caller |-> c]
    /\ UNCHANGED callers
    /\ LimiterFrame

\* one second passes on time.monotonic(): every stored timestamp is a second
\* older and every sleep has a second less to go
Second ==
    /\ timestamps' = [k \in DOMAIN timestamps |->
                        Min(timestamps[k] + 1, probe.per_seconds)]
    /\ grants' = SelectSeq([k \in DOMAIN grants |-> grants[k] + 1],
                           LAMBDA age : age < probe.per_seconds)
    /\ callers' = [c \in Callers |->
                     [callers[c] EXCEPT !.wake = Max(0, @ - 1)]]
    /\ UNCHANGED ret
    /\ LimiterFrame

LimiterInit ==
    /\ LoopInit
    /\ ApiInit
    /\ probe \in Limiters
    /\ ret = NoRet

LimiterNext ==
    \/ \E c \in Callers : Acquire(c)
    \/ \E c \in Callers : AcquireRetry(c)
    \/ \E c \in Callers : CanAcquire(c)
    \/ \E c \in Callers : ResetLimiter(c)
    \/ Second

\* any interleaving of the callers
LimiterSpec == LimiterInit /\ [][LimiterNext]_vars

\* the same with time advancing for ever and the event loop resuming every
\* coroutine whose sleep is over
LimiterFairSpec ==
    /\ LimiterSpec
    /\ WF_vars(Second)
    /\ \A c \in Callers : WF_vars(AcquireRetry(c))

\* the queue never holds more than max_calls timestamps
QueueWithinMaxCalls == Len(timestamps) <= probe.max_calls

\* no more than max_calls grants since the last reset() are younger than
\* per_seconds
GrantsWithinWindow == Len(grants) <= probe.max_calls

----------------------------------------------------------------------------
(* Claims *)

\* task t takes a step of the kind it takes at `pc`
StepAt(t, pc) == tasks[t].pc = pc /\ tasks'[t] # tasks[t]

GuildKey(g) == <<GUILD_COOLDOWN_KEY, g>>

\* C1: once the loop has performed an action for a guild at time t and so
\* stored the cooldown t + GUILD_COOLDOWN_SECONDS, every evaluation of that
\* guild that starts before t + GUILD_COOLDOWN_SECONDS dispatches no
\* executor.
C1_GuildCooldownEnforced ==
    [][\A t \in TaskIds :
         (/\ StepAt(t, "eval")
          /\ cooldowns[GuildKey(GuildOf(t))] # NoCooldown
          /\ Now < cooldowns[GuildKey(GuildOf(t))])
         => (tasks'[t].pc = "ret" /\ executors' = executors)]_vars

\* C2: at most one loop task is alive at any time, and a loop task that is
\* alive is the one _task refers to.
C2_SingleTrackedLoop ==
    /\ Cardinality({t \in TaskIds : Live(t)}) <= 1
    /\ \A t \in TaskIds : Live(t) => task = t

\* C3: when a stop() call returns, the task it cancelled has finished and no
\* loop task is alive (none evaluates a guild until a later start()); a
\* stop() without a task awaits nothing.
C3_StopCancelsAndAwaits ==
    [][\A s \in StopIds :
         /\ (stops[s] # NoTask /\ stops'[s] = NoTask)
            => (/\ tasks'[stops[s]].pc = "done"
                /\ \A t \in TaskIds : tasks'[t].pc \in {"none", "done"})
         /\ (stops[s] = NoTask /\ stops'[s] # NoTask) => task # NoTask]_vars

\* one of the safety checks of the loop returns False for guild g and the
\* selected channel c
Veto(g, c) ==
    \/ ~globalEnabled
    \/ ~guildEnabled[g]
    \/ <<g, "chaos">> \in moduleOff
    \/ (c # NoChannel /\ c \in excluded[g])

\* C4: when a safety check returns False at the evaluation of a guild, the
\* evaluation returns without calling an executor, and neither it nor the
\* rest of the guild's turn creates or changes a cooldown.
C4_SafetyVetoBlocks ==
    [][\A t \in TaskIds :
         /\ (StepAt(t, "eval") /\ Veto(GuildOf(t), tasks'[t].chan))
            => (/\ tasks'[t].pc = "ret"
                /\ executors' = executors
                /\ cooldowns' = cooldowns)
         /\ (StepAt(t, "ret") /\ tasks[t].out = "blocked")
            => (executors' = executors /\ cooldowns' = cooldowns)]_vars

\* an evaluation was vetoed only because the hot channel is excluded
C4_Witness ==
    \E t \in TaskIds :
      /\ tasks[t].pc = "ret"
      /\ tasks[t].out = "blocked"
      /\ tasks[t].chan \in excluded[GuildOf(t)]
      /\ globalEnabled
      /\ guildEnabled[GuildOf(t)]
      /\ <<GuildOf(t), "chaos">> \notin moduleOff

\* C5: after the executor returned, the loop sets the guild cooldown if and
\* only if the executor performed work.
C5_CooldownGatedOnWork ==
    [][\A t \in TaskIds :
         StepAt(t, "post")
         => cooldowns'[GuildKey(GuildOf(t))] =
              IF tasks[t].worked THEN Now + GUILD_COOLDOWN_SECONDS
                                 ELSE cooldowns[GuildKey(GuildOf(t))]]_vars

\* no channel of the snapshot is a text channel with a positive count
NoHotChannel(counts) ==
    \A c \in DOMAIN counts : counts[c] <= 0 \/ c \notin TextChannels

\* C6: when no hot channel qualifies, a channel-dependent action returns
\* "not performed" at once: no executor of random_events runs, nothing is
\* raised, no counter moves and no cooldown is set, in the dispatch or after.
C6_NoChannelNotPerformed ==
    [][\A t \in TaskIds :
         /\ (/\ StepAt(t, "eval")
             /\ tasks'[t].action \in ChannelActions
             /\ NoHotChannel(tasks'[t].counts))
            => (/\ tasks'[t].pc = "post"
                /\ ~tasks'[t].performed
                /\ executors' = executors
                /\ cooldowns' = cooldowns
                /\ chanHonk' = chanHonk
                /\ userHonk' = userHonk)
         /\ (/\ StepAt(t, "post")
             /\ tasks[t].action \in ChannelActions
             /\ NoHotChannel(tasks[t].counts))
            => (/\ tasks'[t].pc = "ret"
                /\ tasks'[t].out = "noop"
                /\ executors' = executors
                /\ cooldowns' = cooldowns)]_vars

\* a channel action was chosen for a snapshot that lists the text channel
\* with no message, and returned "not performed"
C6_Witness ==
    \E t \in TaskIds :
      /\ tasks[t].pc = "post"
      /\ tasks[t].action \in ChannelActions
      /\ \E c \in DOMAIN tasks[t].counts : c \in TextChannels
      /\ NoHotChannel(tasks[t].counts)
      /\ ~tasks[t].performed

\* C7: when the evaluation of a guild raises, the loop task survives and
\* goes on with the next guild of the same cycle (with the sleep after the
\* last guild).
C7_FailureIsolated ==
    [][\A t \in TaskIds :
         /\ (tasks[t].pc = "exec" /\ tasks'[t].pc = "done") => cancelled[t]
         /\ (StepAt(t, "ret") /\ tasks[t].out = "error")
            => IF tasks[t].i < Len(BotGuilds)
               THEN tasks'[t].pc = "eval" /\ tasks'[t].i = tasks[t].i + 1
               ELSE tasks'[t].pc = "sleep"]_vars

\* the first guild raised and the second guild is evaluated
C7_Witness ==
    \E t \in TaskIds :
      /\ tasks[t].pc = "eval"
      /\ tasks[t].i = 2
      /\ tasks[t].out = "error"

\* the latest time the clock of the model reaches
Horizon == (MaxTime \div TickSeconds) * TickSeconds

\* C8: the loop task ends only by cancellation, and unless it is cancelled
\* it starts a new cycle after every sleep and evaluates every guild in it.
C8_LoopRunsForever ==
    /\ [](\A t \in TaskIds : tasks[t].pc = "done" => cancelled[t])
    /\ \A t \in TaskIds : \A k \in 1..Len(BotGuilds) :
         (/\ \/ tasks[t].pc = "created"
             \/ tasks[t].pc = "sleep" /\ tasks[t].wake <= Horizon
          /\ ~cancelled[t])
         ~> (cancelled[t] \/ (tasks[t].pc = "eval" /\ tasks[t].i = k))

\* a second cycle evaluates the last guild
C8_Witness ==
    \E t \in TaskIds :
      /\ tasks[t].pc = "eval"
      /\ tasks[t].i = Len(BotGuilds)
      /\ mono >= MIN_CYCLE_SECONDS

\* C9: a cancellation that reaches the loop task inside an executor finds no
\* honk counter incremented and no burst message sent by that executor (the
\* executor's cooldown is set only when it completes).
C9_NoSplitUpdate ==
    [][\A t \in TaskIds :
         (tasks[t].pc = "exec" /\ tasks'[t].pc = "done")
         => \A e \in executors :
              e.task = t => (e.added = 0 /\ e.sent = 0)]_vars

\* C10: a loop task has at most one executor in progress, the one of the
\* guild it is evaluating, and it waits for it.
C10_OneExecutorAtATime ==
    \A t \in TaskIds :
      LET mine == {e \in executors : e.task = t}
      IN  /\ Cardinality(mine) <= 1
          /\ \A e \in mine : tasks[t].pc = "exec" /\ e.guild = GuildOf(t)

\* the executor of the second guild runs after the first guild's action was
\* performed in the same cycle
C10_Witness ==
    \E e \in executors :
      /\ e.guild = BotGuilds[2]
      /\ cooldowns[GuildKey(BotGuilds[1])] = GUILD_COOLDOWN_SECONDS
      /\ mono = 0


\* none < warn < retaliate < severe
TierRank(level) ==
    CASE level = "none" -> 0
      [] level = "warn" -> 1
      [] level = "retaliate" -> 2
      [] level = "severe" -> 3

\* C20: threshold_level is monotonic: for scores s1 >= s2 the tier of s1 is
\* not below the tier of s2 in the order none < warn < retaliate < severe.
C20_ClassifyMonotonic ==
    (ret.op = "classify" /\ probe.s1 >= probe.s2)
    => TierRank(ret.level1) >= TierRank(ret.level2)

\* two scores on either side of the retaliate threshold were classified
\* under the default thresholds
C20_Witness ==
    /\ ret.op = "classify"
    /\ probe.thresholds = DefaultThresholds
    /\ probe.s1 = THRESHOLD_RETALIATE
    /\ probe.s2 = THRESHOLD_RETALIATE - 1
    /\ ret.level1 = "retaliate"
    /\ ret.level2 = "warn"

\* C12: once the mood state exists, each of aggression, boredom, curiosity
\* and chaos lies in [0, 1] after any sequence of tick, update_state (any
\* event, any intensity) and set_state calls.
C12_FieldsWithinUnit ==
    gooseState.mood # "-"
    => \A field \in Fields : gooseState[field] >= 0 /\ gooseState[field] <= Unit

\* an infinite intensity drove a field to each end of the range
C12_Witness ==
    /\ probe.op = "update"
    /\ probe.event = "honked_at"
    /\ probe.intensity = PosInf
    /\ gooseState.aggression = Unit
    /\ gooseState.boredom = 0

\* C13: as long as no set_state call gave a mood, the stored mood is
\* _resolve_mood of the stored aggression and chaos; this covers the state
\* created on first use and a tick with decay_seconds <= 0.
C13_MoodIsDerived ==
    (gooseState.mood # "-" /\ ~probe.override)
    => gooseState.mood = ResolveMood(gooseState.aggression, gooseState.chaos)

\* a tick with decay_seconds <= 0 returned the state an update had left in
\* another mood than the default one
C13_Witness ==
    /\ probe.op = "tick"
    /\ probe.decay <= 0
    /\ ~probe.override
    /\ gooseState.mood = "ferocious"

\* C14: update_state(e, intensity, now) with an event name that is not in
\* EVENT_EFFECTS stores exactly the state tick(now) would have stored, for
\* any intensity.
C14_UnknownEventIsTick ==
    [][(/\ apiOps' = apiOps + 1
        /\ probe'.op = "update"
        /\ probe'.event \notin KnownEvents
        /\ probe'.decay = DEFAULT_DECAY_SECONDS)
       => gooseState' = TickState(gooseState, probe'.now, DEFAULT_DECAY_SECONDS)]_vars

\* the state a call finds: the stored one, or the default one on first use
SerialBase(st, now) == IF st.mood = "-" THEN DefaultGoose(now) ELSE st

\* the decayed state a call works on when it runs alone on state st
SerialDecayed(st, call) ==
    ApplyDecay(SerialBase(st, Timestamp(call.now)), Timestamp(call.now), call.decay)

\* C19: every tick and update_state call acts on the state the call before
\* it stored: a tick stores the decay of that state, an update_state stores
\* that decay plus its own delta and returns it, so the calls take effect
\* one at a time in the order they ran and no delta is lost.
C19_MoodCallsSerialized ==
    [][(apiOps' = apiOps + 1 /\ probe'.op \in {"tick", "update"})
       => LET before == SerialDecayed(gooseState, probe')
          IN  /\ ret' = gooseState'
              /\ probe'.op = "tick" => gooseState' = before
              /\ probe'.op = "update" =>
                   /\ gooseState'.last_updated = Timestamp(probe'.now)
                   /\ \A field \in Fields :
                        gooseState'[field] =
                          Clamp01(FloatAdd(before[field],
                                           FloatMul(Effect(probe'.event, field),
                                                    probe'.intensity)))]_vars

\* two "chased" events at the same instant both left their delta
C19_Witness ==
    /\ apiOps = 2
    /\ probe.op = "update"
    /\ probe.event = "chased"
    /\ gooseState.aggression = 900
    /\ gooseState.chaos = 500

\* C15: is_on_cooldown(purpose, id, now) is true exactly when an expiry is
\* stored for the key and now < expiry: with the expiry at t + 5 it is true
\* at t + 1 and false at t + 6, it is false at now = expiry, and it is false
\* for a key that was never set or was cleared.
C15_CooldownIffBeforeExpiry ==
    probe.op = "is_on_cooldown" =>
      LET expiry == cooldowns[probe.key]
          at == IF probe.now = NoNow THEN Wall ELSE probe.now
      IN  /\ ret.value = (expiry # NoCooldown /\ at < expiry)
          /\ (expiry = Wall + CooldownSeconds /\ probe.now = Wall + 1
                => ret.value = TRUE)
          /\ (expiry = Wall + CooldownSeconds
                /\ probe.now = Wall + CooldownSeconds + 1
                => ret.value = FALSE)
          /\ (probe.now = expiry => ret.value = FALSE)
          /\ (expiry = NoCooldown => ret.value = FALSE)

\* a query at exactly the stored expiry answered "not on cooldown"
C15_Witness ==
    /\ probe.op = "is_on_cooldown"
    /\ cooldowns[probe.key] = Wall + CooldownSeconds
    /\ probe.now = cooldowns[probe.key]
    /\ ret.value = FALSE

\* C17: after any sequence of set, increment (positive or negative amount),
\* decay, reset and reset_all_state calls every stored user honk count and
\* channel honk activity is >= 0, and a decay with amount <= 0 changes no
\* counter.
C17_CountersNeverNegative ==
    /\ [](\A kind \in CounterKinds :
            \A k \in DOMAIN Counter(kind) : Counter(kind)[k] >= 0)
    /\ [][(probe'.op = "decay" /\ probe'.amount <= 0)
            => UNCHANGED <<userHonk, chanHonk>>]_vars

\* an increment by a negative amount larger than the count stored 0
C17_Witness ==
    /\ probe.op = "increment"
    /\ probe.amount < 0
    /\ ret.value = 0
    /\ probe.key \in DOMAIN Counter(probe.kind)
    /\ Counter(probe.kind)[probe.key] = 0

\* C18: for an absent key the getters return 0 (counters), False
\* (is_on_cooldown) and the default takeover threshold; is_honklocked /
\* is_echolocked answer True exactly while the user is in the corresponding
\* lock dict, so False for an absent user; and setting or clearing a lock of
\* one kind leaves the dict of the other kind as it was.
C18_ReadsTotalWithDefaults ==
    /\ [](/\ (probe.op = "get_count"
                /\ probe.key \notin DOMAIN Counter(probe.kind))
               => ret.value = 0
          /\ (probe.op = "is_on_cooldown"
                /\ cooldowns[probe.key] = NoCooldown)
               => ret.value = FALSE
          /\ (probe.op = "get_threshold"
                /\ probe.key \notin DOMAIN takeoverThresholds)
               => ret.value = DEFAULT_TAKEOVER_THRESHOLD
          /\ probe.op = "is_locked"
               => ret.value = (probe.key \in DOMAIN Locks(probe.kind)))
    /\ [][probe'.op \in {"set_lock", "clear_lock"}
            => IF probe'.kind = "honklock" THEN echoLocks' = echoLocks
               ELSE honklocks' = honklocks]_vars

\* a honklocked user was reported not echolocked
C18_Witness ==
    /\ probe.op = "is_locked"
    /\ probe.kind = "echolock"
    /\ probe.key \in DOMAIN honklocks
    /\ ret.value = FALSE

TakeoverKey(c) == <<COOLDOWN_TAKEOVER, c>>

\* C11: a channel_takeover that succeeds at time t stores the expiry
\* t + DEFAULT_TAKEOVER_COOLDOWN_SECONDS for the channel, and every
\* channel_takeover call on that channel before the stored expiry returns
\* False at once and starts no send, whatever the channel's honk counter is.
C11_TakeoverCooldown ==
    [][/\ \A e \in executors :
            (/\ e.kind = "takeover"
             /\ e \notin executors'
             /\ tasks'[e.task].pc = "post"
             /\ tasks'[e.task].performed)
            => cooldowns'[TakeoverKey(e.chan)] =
                 Wall + DEFAULT_TAKEOVER_COOLDOWN_SECONDS
       /\ \A t \in TaskIds :
            (/\ StepAt(t, "eval")
             /\ tasks'[t].action = "takeover"
             /\ tasks'[t].chan # NoChannel
             /\ cooldowns[TakeoverKey(tasks'[t].chan)] # NoCooldown
             /\ Wall < cooldowns[TakeoverKey(tasks'[t].chan)])
            => (/\ tasks'[t].pc = "post"
                /\ ~tasks'[t].performed
                /\ executors' = executors
                /\ cooldowns' = cooldowns
                /\ chanHonk' = chanHonk)]_vars

\* a takeover was refused inside the window of an earlier one although the
\* channel's counter had reached the threshold again
C11_Witness ==
    \E t \in TaskIds :
      /\ tasks[t].pc = "post"
      /\ tasks[t].action = "takeover"
      /\ tasks[t].chan # NoChannel
      /\ ~tasks[t].performed
      /\ cooldowns[TakeoverKey(tasks[t].chan)] # NoCooldown
      /\ Wall < cooldowns[TakeoverKey(tasks[t].chan)]
      /\ IsTakeoverReady(tasks[t].chan, GetChannelHonkActivity(tasks[t].chan))

\* C16: however the listener's increments interleave with the lines of the
\* loop's honkify bursts, each counter holds its value at the last reset (0
\* at the start) plus the sum of all amounts added since, and the listener's
\* increment returns the counts it stored.
C16_NoLostIncrements ==
    /\ [](/\ \A u \in Members : GetUserHonkCount(u) = ledger.user[u]
          /\ \A c \in TextChannels : GetChannelHonkActivity(c) = ledger.chan[c])
    /\ [][apiOps' # apiOps
            => (/\ ret'.user_count = userHonk'[probe'.user]
                /\ ret'.channel_count = chanHonk'[probe'.chan]
                /\ ret'.user_count = GetUserHonkCount(probe'.user) + probe'.amount
                /\ ret'.channel_count =
                     GetChannelHonkActivity(probe'.chan) + probe'.amount)]_vars

\* the listener added to a counter while a burst that had already added to it
\* was suspended
C16_Witness ==
    /\ probe.op = "on_message"
    /\ \E e \in executors :
         /\ e.kind = "honkify"
         /\ e.added > 0
         /\ e.chan = probe.chan
         /\ ret.channel_count >= e.added + probe.amount
         /\ GetChannelHonkActivity(e.chan) = ret.channel_count

\* C21: with thresholds warn < retaliate < severe, a score equal to the
\* warn, retaliate or severe threshold is classified "warn", "retaliate" or
\* "severe", and meets_threshold(score) is true exactly when
\* threshold_level(score) is "retaliate" or "severe".
C21_BoundaryResolvesUp ==
    (/\ ret.op = "classify"
     /\ probe.thresholds.warn < probe.thresholds.retaliate
     /\ probe.thresholds.retaliate < probe.thresholds.severe)
    => /\ probe.s1 = probe.thresholds.warn => ret.level1 = "warn"
       /\ probe.s1 = probe.thresholds.retaliate => ret.level1 = "retaliate"
       /\ probe.s1 = probe.thresholds.severe => ret.level1 = "severe"
       /\ ret.meets1 <=> ret.level1 \in {"retaliate", "severe"}

\* the score 18 was classified "severe" under the default thresholds
C21_Witness ==
    /\ ret.op = "classify"
    /\ probe.thresholds = DefaultThresholds
    /\ probe.s1 = THRESHOLD_SEVERE
    /\ ret.level1 = "severe"
    /\ ret.meets1

\* C22: apply_decay over zero elapsed time is the identity:
\* apply_decay(s, t, now=t) = s for every score s, timestamp t and half-life.
C22_ZeroElapsedIdentity ==
    (ret.op = "decay" /\ probe.now = probe.last_updated)
    => ret.decayed = probe.score

\* a positive score was decayed at now = last_updated under a positive
\* half-life, and decays when time passes
C22_Witness ==
    /\ ret.op = "decay"
    /\ probe.now = probe.last_updated
    /\ probe.half_life > 0
    /\ probe.score > 0
    /\ ret.decayed = probe.score
    /\ ret.decayed_later < probe.score

\* C23: for a score >= 0, every last_updated and every now (also a now
\* before last_updated), 0 <= apply_decay(score, last_updated, now) <= score;
\* a later now never gives a larger result; and with half_life_seconds <= 0
\* the score is returned unchanged.
C23_DecayNeverRaises ==
    ret.op = "decay"
    => /\ 0 <= ret.decayed
       /\ ret.decayed <= probe.score
       /\ ret.decayed_later <= ret.decayed
       /\ probe.half_life <= 0
            => (ret.decayed = probe.score /\ ret.decayed_later = probe.score)

\* a score was decayed at a now before last_updated and came back unchanged
C23_Witness ==
    /\ ret.op = "decay"
    /\ probe.now # NoNow
    /\ probe.now < probe.last_updated
    /\ probe.half_life > 0
    /\ probe.score > 0
    /\ ret.decayed = probe.score

\* C24: with no history and no mentions the score of a message is its
\* content score.  For a text with a keyword hit the score of its uppercase
\* form with "!" is above the score of its lowercase form without "!", which
\* is above 0; a text without a hit scores 0; and the content score is the
\* summed keyword score times the caps multiplier (once, when all caps) times
\* the exclamation multiplier (once, however many "!" there are).
C24_MultipliersCompound ==
    ret.op = "content"
    => LET summed == KeywordScore(probe.text)
           caps == IF IsAllCaps(probe.text) THEN ALL_CAPS_MULTIPLIER ELSE 10
           bang == IF probe.text.bangs > 0 THEN EXCLAMATION_MULTIPLIER ELSE 10
       IN  /\ summed > 0 => (ret.loud > ret.plain /\ ret.plain > 0)
           /\ summed = 0 => (ret.own = 0 /\ ret.plain = 0 /\ ret.loud = 0)
           /\ ret.own * 100 = summed * caps * bang

\* an all-caps insult with two "!" scored 2.0 * 1.4 * 1.1 = 3.08 against 2.0
\* for its lowercase form
C24_Witness ==
    /\ ret.op = "content"
    /\ probe.text.insult = 1
    /\ probe.text.profanity = 0
    /\ probe.text.threat = 0
    /\ probe.text.cased = "upper"
    /\ ~probe.text.caseless
    /\ probe.text.bangs = 2
    /\ ret.own = 3080
    /\ ret.loud = 3080
    /\ ret.plain = 2000

\* C25: a history with a sample among its first 5 whose content equals the
\* message's (trimmed, case-insensitive) gives a repetition sub-score above
\* the 0 of an empty history; samples after the first 5 contribute nothing;
\* the sub-score is at most 10 x the repetition weight.
C25_RepetitionWindow ==
    ret.op = "repetition"
    => /\ ret.empty = 0
       /\ (\E k \in 1..Min(REPETITION_WINDOW, Len(probe.history)) :
             Normalize(probe.history[k].content)
               = Normalize(probe.message.content))
            => ret.whole > ret.empty
       /\ ret.whole = ret.window
       /\ ret.whole <= 10 * REPETITION

\* six repeats that share a mention were scored as five: 10 x the weight
C25_Witness ==
    /\ ret.op = "repetition"
    /\ Len(probe.history) = MaxHistory
    /\ \A k \in DOMAIN probe.history :
         /\ Normalize(probe.history[k].content) = Normalize(probe.message.content)
         /\ probe.history[k].mentions \cap probe.message.mentions # {}
    /\ ret.whole = 10 * REPETITION

C28_ProvocationTotalAndBounded ==
    ret.op = "provocation" =>
        LET present == {i \in ProvocationProbes : probe.engine.funcs[i].defined}
            failing ==
                \/ ~probe.engine.importable
                \/ present = {}
                \/ \E i \in present :
                     /\ \A j \in present : i <= j
                     /\ probe.engine.funcs[i].first = Raises
                     /\ probe.engine.funcs[i].second = Raises
        IN  /\ ret.level \in 0 .. Unit
            /\ ret.outcome \in {"none", "act"}
            /\ failing =>
                 /\ ret.level = 0
                 /\ ret.chance = BASE_ACTION_CHANCE * Unit
                                   + MIN_ACTIVITY_SCORE * ACTIVITY_WEIGHT

\* the first probed function raised twice although a later one would answer,
\* and an engine answered out of range
C28_Witness ==
    /\ ret.op = "provocation"
    /\ probe.engine.importable
    /\ ~probe.engine.funcs[1].defined
    /\ probe.engine.funcs[2].defined
    /\ probe.engine.funcs[2].first = Raises
    /\ probe.engine.funcs[2].second = Raises
    /\ probe.engine.funcs[3].defined
    /\ probe.engine.funcs[3].first = Fin(7000)
    /\ ret.level = 0
    /\ ret.outcome = "act"

\* C29 (refuted form): when a call that _safety_allows makes to a safety
\* control raises, the guild is vetoed: _safety_allows returns False and the
\* evaluation ends "blocked", before any executor.
C29_RaisingControlVetoes ==
    (/\ ret.op = "safety"
     /\ \E i \in ProbesMade(probe.selected) :
          CallsMade(probe.controls[i]) \cap {Raises, TypeErrors} # {})
        => /\ ~ret.allowed
           /\ ret.outcome = "blocked"

\* C27: normalized() returns only values in [0, 1]; when the positive
\* weights sum to more than 0 the values sum to 1 and every non-positive
\* weight maps to 0; when they sum to 0 every intent maps to 0.
C27_NormalizedIsDistribution ==
    ret.op = "normalized" =>
        LET positive == {i \in Intents : probe.modifiers[i] > 0}
            nums == [i \in Intents |-> ret.weights[i].num]
        IN  /\ DOMAIN ret.weights = Intents
            /\ \A i \in Intents :
                 /\ ret.weights[i].den > 0
                 /\ 0 <= ret.weights[i].num
                 /\ ret.weights[i].num <= ret.weights[i].den
                 /\ i \notin positive => ret.weights[i].num = 0
            /\ positive # {} =>
                 \A i \in Intents : ret.weights[i].den = SumValues(nums)
            /\ positive = {} => \A i \in Intents : ret.weights[i].num = 0

\* weights of both signs were normalized
C27_Witness ==
    /\ ret.op = "normalized"
    /\ probe.modifiers["retreat"] = -200
    /\ probe.modifiers["observe"] = 100
    /\ probe.modifiers["chase"] = 300
    /\ ret.weights["retreat"].num = 0
    /\ ret.weights["chase"].num = 300
    /\ ret.weights["chase"].den = 400

\* C30: randomized_delay and randomized_delay_value raise, without sleeping,
\* whenever a bound is negative or max_seconds < min_seconds; a
\* CooldownTracker is never built with cooldown_seconds < 0 and a
\* RateLimiter never with max_calls <= 0 or per_seconds <= 0: the
\* constructor raises instead.
C30_InvalidTimingRejected ==
    /\ ret.op \in {"randomized_delay", "randomized_delay_value"} =>
         ((\/ probe.min_seconds < 0
           \/ probe.max_seconds < 0
           \/ probe.max_seconds < probe.min_seconds)
            => ret.raised /\ ~ret.slept)
    /\ ret.op = "CooldownTracker" =>
         /\ probe.cooldown_seconds < 0 => ret.raised
         /\ ret.raised <=> ret.object = NoObject
         /\ ret.object # NoObject => ret.object.cooldown_seconds >= 0
    /\ ret.op = "RateLimiter" =>
         /\ (probe.max_calls <= 0 \/ probe.per_seconds <= 0) => ret.raised
         /\ ret.raised <=> ret.object = NoObject
         /\ ret.object # NoObject =>
              ret.object.max_calls > 0 /\ ret.object.per_seconds > 0

\* a delay with non-negative bounds in the wrong order was refused
C30_Witness ==
    /\ ret.op = "randomized_delay"
    /\ probe.min_seconds = 2
    /\ probe.max_seconds = 1
    /\ ret.raised
    /\ ~ret.slept

\* C31 (refuted form): a tick of a stored state with positive elapsed time
\* never increases aggression and leaves each of boredom, curiosity and
\* chaos on the same side of its neutral baseline (the value _ensure_state
\* starts it at) and no farther from it.
C31_DecayTowardBaseline ==
    [][(/\ apiOps' # apiOps
        /\ probe'.op = "tick"
        /\ probe'.decay > 0
        /\ gooseState.mood # "-"
        /\ Timestamp(probe'.now) > gooseState.last_updated)
          => /\ gooseState'.aggression <= gooseState.aggression
             /\ gooseState'.last_updated = Timestamp(probe'.now)
             /\ \A field \in {"boredom", "curiosity", "chaos"} :
                  LET baseline == DefaultGoose(0)[field]
                      before == gooseState[field] - baseline
                      after == gooseState'[field] - baseline
                  IN  /\ before * after >= 0
                      /\ after * after <= before * before]_vars

C33_SignalRanges ==
    ret.op = "signals" =>
        /\ ret.activity >= MIN_ACTIVITY_SCORE
        /\ ret.activity <= Unit
        /\ ret.density >= 0
        /\ ret.density <= Unit
        /\ ret.channel = NoChannel => ret.density = 0
        /\ ret.channel # NoChannel =>
             /\ ret.channel \in DOMAIN probe.counts
             /\ probe.counts[ret.channel] > 0
        /\ ret.threshold >= 1

\* a snapshot with a negative count, a threshold set to 0 and a channel with
\* more honks than the threshold
C33_Witness ==
    /\ ret.op = "signals"
    /\ \E c \in DOMAIN probe.counts : probe.counts[c] < 0
    /\ probe.threshold.made
    /\ probe.threshold.arg = 0
    /\ ret.threshold = 1
    /\ ret.channel = 11
    /\ probe.honk_count = 20
    /\ ret.density = Unit

\* C34: for every mood and every honk density in [0, 1] each of the four
\* categories has a strictly positive weight after the multipliers of
\* _weighted_action, so every category can be drawn.
C34_PositiveActionWeights ==
    ret.op = "weighted_action" =>
        /\ DOMAIN ret.weights = {"voice", "honkify", "takeover", "flood"}
        /\ \A action \in DOMAIN ret.weights : ret.weights[action] > 0
        /\ Choices(ret.weights) = {"voice", "honkify", "takeover", "flood"}

\* the flood, the one category whose weight a multiplier lowers, was drawn
\* for a serene goose
C34_Witness ==
    /\ ret.op = "weighted_action"
    /\ probe.mood = "serene"
    /\ ret.action = "flood"
    /\ ret.weights["flood"] = FLOOD_ACTION_WEIGHT * 85 * WeightUnit

C36_CountersInLockStep ==
    [][(apiOps' # apiOps /\ probe'.op = "honkify_message") =>
         LET u == probe'.user
             c == probe'.chan
             user_delta == DictGet(userHonk', u, 0) - DictGet(userHonk, u, 0)
             channel_delta == DictGet(chanHonk', c, 0) - DictGet(chanHonk, c, 0)
         IN  IF ret'.outcome
             THEN /\ ret'.honk_delta \in {1, 2}
                  /\ user_delta = ret'.honk_delta
                  /\ channel_delta = ret'.honk_delta
                  /\ \A k \in DOMAIN userHonk' \ {u} :
                       k \in DOMAIN userHonk /\ userHonk'[k] = userHonk[k]
                  /\ \A k \in DOMAIN chanHonk' \ {c} :
                       k \in DOMAIN chanHonk /\ chanHonk'[k] = chanHonk[k]
                  /\ ret'.takeover_ready <=>
                       (DictGet(chanHonk', c, 0)
                          >= DictGet(takeoverThresholds, c,
                                     DEFAULT_TAKEOVER_THRESHOLD))
             ELSE /\ userHonk' = userHonk
                  /\ chanHonk' = chanHonk]_vars

\* a double honk took the channel's counter to its threshold
C36_Witness ==
    /\ ret.op = "honkify_message"
    /\ ret.outcome
    /\ ret.honk_delta = 2
    /\ ret.takeover_ready
    /\ GetChannelHonkActivity(probe.chan) = DEFAULT_TAKEOVER_THRESHOLD
    /\ GetUserHonkCount(probe.user) = DEFAULT_TAKEOVER_THRESHOLD

\* C37: an evaluation of a guild whose guild cooldown is active changes
\* nothing: the mood state is not ticked, no executor is created, and no
\* counter, cooldown, lock or safety entry is written.
C37_SkipChangesNothing ==
    [][\A t \in TaskIds :
         (StepAt(t, "eval") /\ IsOnCooldown(GUILD_COOLDOWN_KEY, GuildOf(t)))
           => /\ tasks'[t].pc = "ret"
              /\ tasks'[t].out = "cooldown"
              /\ gooseState' = gooseState
              /\ executors' = executors
              /\ storeVars' = storeVars
              /\ lockVars' = lockVars
              /\ safetyVars' = safetyVars]_vars

\* a guild was skipped on its cooldown after the mood engine had started
C37_Witness ==
    \E t \in TaskIds :
      /\ tasks[t].pc = "ret"
      /\ tasks[t].out = "cooldown"
      /\ gooseState.mood # "-"
      /\ gooseState.last_updated < Wall

\* the cooldown key and the cooldown length of honkify_burst and message_flood
BurstKey(kind, c) ==
    IF kind = "honkify" THEN <<COOLDOWN_HONKIFY_BURST, c>>
    ELSE <<COOLDOWN_MESSAGE_FLOOD, c>>

BurstSeconds(kind) ==
    IF kind = "honkify" THEN DEFAULT_HONKIFY_COOLDOWN_SECONDS
    ELSE DEFAULT_FLOOD_COOLDOWN_SECONDS

C39_SafetyDuringBurst ==
    [][\A e \in executors' :
         (/\ e \notin executors
          /\ e.kind \in ChannelActions
          /\ e.step = "send")
         => SafetyAllows(e.guild, e.chan)]_vars

\* C40: under any interleaving of callers of acquire(), can_acquire() and
\* reset() on one RateLimiter, the queue never holds more than max_calls
\* timestamps, no more than max_calls acquire() calls are granted within
\* per_seconds, and every acquire() call returns in the end, given that time
\* goes on and every coroutine whose sleep is over is resumed.
C40_RateLimit ==
    /\ []QueueWithinMaxCalls
    /\ []GrantsWithinWindow
    /\ \A c \in Callers : (callers[c].pc = "sleep") ~> (callers[c].pc = "idle")

====
